---- MODULE Spec2Model ----
(***************************************************************************)
(* Model of the arxiv-recent digest pipeline: the run controller           *)
(* (cli.py: cmd_run, cmd_send), the persistent store (db.py), the push     *)
(* collaborator (push/__init__.py), the settings (config.py) and the       *)
(* summarization engine (summarizer.py, llm.py).                           *)
(*                                                                         *)
(* Text is modelled as a sequence of tokens: a channel name is one token,  *)
(* the separator "," is one token.  "email,qq" is <<"email", ",", "qq">>   *)
(* and the empty string is << >>.                                          *)
(***************************************************************************)
EXTENDS Integers, Sequences, FiniteSets, TLC

\* Largest number of papers one fetch returns / one summarize call receives.
MaxPapers == 2

PaperIds == 1..MaxPapers

Comma == ","

\* ------------------------------------------------------------------ text

\* str.lower() on one token. "Email" is the only token with an upper-case letter.
LowerTok(t) == IF t = "Email" THEN "email" ELSE t

\* channel.strip().lower()
Lower(s) == [i \in DOMAIN s |-> LowerTok(s[i])]

\* Code-point order of the first characters of the tokens: ',' < 'E' < 'e' < 'q' < 't'.
TokRank(t) ==
  CASE t = Comma -> 0
    [] t = "Email" -> 1
    [] t = "email" -> 2
    [] t = "qq" -> 3
    [] OTHER -> 4

\* Python's str < str: no token is a prefix of another, so comparing token by
\* token is comparing character by character.
RECURSIVE StrLess(_, _)
StrLess(a, b) ==
  IF b = << >> THEN FALSE
  ELSE IF a = << >> THEN TRUE
  ELSE IF Head(a) = Head(b) THEN StrLess(Tail(a), Tail(b))
  ELSE TokRank(Head(a)) < TokRank(Head(b))

\* str.split(","): "" gives [""], "a," gives ["a", ""].
RECURSIVE Split(_)
Split(s) ==
  IF \A i \in DOMAIN s : s[i] # Comma THEN << s >>
  ELSE LET i == CHOOSE k \in DOMAIN s :
                  s[k] = Comma /\ \A j \in 1..(k - 1) : s[j] # Comma
       IN << SubSeq(s, 1, i - 1) >> \o Split(SubSeq(s, i + 1, Len(s)))

\* ",".join(list)
RECURSIVE Join(_)
Join(l) ==
  IF l = << >> THEN << >>
  ELSE IF Len(l) = 1 THEN l[1]
  ELSE l[1] \o << Comma >> \o Join(Tail(l))

\* set(list)
SeqToSet(l) == {l[i] : i \in DOMAIN l}

\* sorted(set of str)
RECURSIVE Sorted(_)
Sorted(S) ==
  IF S = {} THEN << >>
  ELSE LET m == CHOOSE x \in S : \A y \in S \ {x} : StrLess(x, y)
       IN << m >> \o Sorted(S \ {m})

NonEmptyStr(s) == s # << >>

\* ---------------------------------------------------------------- config

\* Settings.push_channels: [s.strip() for s in str.split(",") if s.strip()]
push_channels(c) == SelectSeq(Split(c.push_channels_str), NonEmptyStr)

Setting(str, email, qq) ==
  [push_channels_str |-> str, email_configured |-> email, qq_configured |-> qq]

\* The settings a process can start with: PUSH_CHANNELS empty, one channel,
\* two channels, a trailing comma, a capitalised name, a disabled channel, a
\* repeated channel, and channels whose credentials are missing.
Settings ==
  { Setting(<< >>, TRUE, TRUE),
    Setting(<< "email" >>, TRUE, TRUE),
    Setting(<< "email" >>, FALSE, TRUE),
    Setting(<< "qq", Comma >>, TRUE, TRUE),
    Setting(<< "email", Comma, "qq" >>, TRUE, TRUE),
    Setting(<< "email", Comma, "qq" >>, TRUE, FALSE),
    Setting(<< "Email" >>, TRUE, TRUE),
    Setting(<< "telegram" >>, TRUE, TRUE),
    Setting(<< "email", Comma, "email" >>, TRUE, TRUE) }

\* ------------------------------------------------------------------ push

\* The settings whose channel names are spelled as push_digest reports them
\* (lower case).
LowerCaseSettings ==
  {c \in Settings : \A i \in DOMAIN push_channels(c) :
                      Lower(push_channels(c)[i]) = push_channels(c)[i]}

\* results[key] = value on a dict kept as the list of its items in insertion
\* order: an existing key keeps its place and takes the new value.
DictSet(d, k, v) ==
  IF \E i \in DOMAIN d : d[i].key = k
  THEN [i \in DOMAIN d |-> IF d[i].key = k THEN [key |-> k, ok |-> v] ELSE d[i]]
  ELSE Append(d, [key |-> k, ok |-> v])

\* push/__init__.py 34-68, the body of the try for the channel ch: "false"
\* when the channel is not configured or not known, "true" when its send call
\* completed, "raise" when the send call raised. (config.py has no
\* qq_configured: on a Settings object without it the read at 49 raises
\* AttributeError inside the try, which ends as an unconfigured channel does.)
TryOne(c, ch, sendOk) ==
  IF ch = << "email" >>
  THEN IF ~c.email_configured THEN "false" ELSE IF sendOk THEN "true" ELSE "raise"
  ELSE IF ch = << "qq" >>
  THEN IF ~c.qq_configured THEN "false" ELSE IF sendOk THEN "true" ELSE "raise"
  ELSE "false"

\* One pass of push_digest's loop for one channel (31-72): the body of the
\* try, and the handler at 70-72 that turns an exception into False.
\* sendOk says whether the channel's send call completes without raising.
PushOne(c, channel, sendOk, results) ==
  LET ch == Lower(channel) IN DictSet(results, ch, TryOne(c, ch, sendOk) = "true")

RECURSIVE PushLoop(_, _, _, _)
PushLoop(c, channels, sends, results) ==
  IF channels = << >> THEN results
  ELSE PushLoop(c, Tail(channels), Tail(sends),
                PushOne(c, Head(channels), Head(sends), results))

\* push_digest(md, txt, run_date, cfg) -> {channel: success}
push_digest(c, sends) == PushLoop(c, push_channels(c), sends, << >>)

\* [ch for ch, ok in results.items() if ok]
IsOk(item) == item.ok

\* As SentChannels, without the test: every channel of the mapping.
SentChannels_All(results) == [i \in DOMAIN results |-> results[i].key]

SentChannels(results) ==
  LET oks == SelectSeq(results, IsOk) IN [i \in DOMAIN oks |-> oks[i].key]

\* ----------------------------------------------------------------- store

Dates == {"d1"}

NoSummary == "none"
SummaryKinds == {"parsed", "repaired", "minimal"}

VARIABLES
  papers,      \* papers table: the set of stored arxiv_id
  summaries,   \* summaries table: arxiv_id -> stored summary, or NoSummary
  runs         \* runs table: run_date -> [status, sent_channels], stored dates only

storeVars == << papers, summaries, runs >>

\* The wall clock read by _now_iso (db.py 42-43).
VARIABLES
  now_iso      \* datetime.now(UTC), counted in steps

timeVars == << now_iso >>

\* Database.get_run: the row, or absent
HasRun(d) == d \in DOMAIN runs

\* INSERT OR REPLACE: on a conflict the whole row is written anew.
upsert_run_Replace(d, status, sent_channels) ==
  [x \in DOMAIN runs \cup {d} |->
     IF x = d
     THEN [status |-> status, sent_channels |-> sent_channels, created_at |-> now_iso]
     ELSE runs[x]]

\* Database.upsert_run(run_date, status, sent_channels="") (db.py 147-156):
\* insert the row with created_at = _now_iso(), or on a conflict replace the
\* status and sent_channels columns of the existing row.
upsert_run(d, status, sent_channels) ==
  [x \in DOMAIN runs \cup {d} |->
     IF x # d THEN runs[x]
     ELSE IF HasRun(d)
     THEN [runs[d] EXCEPT !.status = status, !.sent_channels = sent_channels]
     ELSE [status |-> status, sent_channels |-> sent_channels, created_at |-> now_iso]]

\* Database.was_sent
was_sent(d, channel) ==
  IF ~HasRun(d) THEN FALSE
  ELSE channel \in SeqToSet(Split(runs[d].sent_channels))

\* As mark_sent, but the channel replaces what was recorded.
mark_sent_Overwrite(d, channel) == upsert_run(d, "sent", channel)

\* Database.mark_sent: read the row, add the channel, write back sorted.
mark_sent(d, channel) ==
  IF ~HasRun(d) THEN upsert_run(d, "sent", channel)
  ELSE LET existing == {c \in SeqToSet(Split(runs[d].sent_channels)) : c # << >>}
       IN upsert_run(d, "sent", Join(Sorted(existing \cup {channel})))

\* Database.has_summary
has_summary(id) == summaries[id] # NoSummary

\* json.dumps(summary, ensure_ascii=False) (db.py 129): the text kept in the
\* summary_json column. The summaries saved are dictionaries of strings and
\* lists of strings with string keys (summarizer.py 87-107, 163-167), which
\* JSON renders without loss: different summaries give different texts.
json_dumps(summary) ==
  CASE summary = "parsed" -> "{\"summary\": \"parsed\"}"
    [] summary = "repaired" -> "{\"summary\": \"repaired\"}"
    [] OTHER -> "{\"summary\": \"minimal\"}"

SummaryTexts == {json_dumps(summary) : summary \in SummaryKinds}

\* json.loads(text) (db.py 139): the summary whose rendering the text is
json_loads(text) == CHOOSE summary \in SummaryKinds : json_dumps(summary) = text

\* INSERT OR IGNORE: a summary already stored for the paper is kept.
save_summary_KeepFirst(id, summary) ==
  IF summaries[id] # NoSummary THEN summaries
  ELSE [summaries EXCEPT ![id] = json_dumps(summary)]

\* Database.save_summary (db.py 125-131): INSERT OR REPLACE on the primary key
save_summary(id, summary) == [summaries EXCEPT ![id] = json_dumps(summary)]

\* Database.get_summary (db.py 133-139): None (NoSummary) without a row
get_summary(id) ==
  IF summaries[id] = NoSummary THEN NoSummary ELSE json_loads(summaries[id])

\* Database.get_all_papers_with_summaries: the inner join
papers_with_summaries == {id \in papers : has_summary(id)}

\* ------------------------------------------------------------ controller

VARIABLES
  pc,          \* where the running command stands; "idle" between invocations
  cmd,         \* the command of the current (or last) invocation: "run", "send"
  today,       \* its run date
  cfg,         \* its settings (get_settings())
  fetched,     \* cmd_run's local `papers`: what fetch_papers returned
  results,     \* push_digest's result of this invocation
  thrown,      \* the exception that escaped a stage, "none" if none
  outcome,     \* how the last invocation ended: "returned", or the exception raised
  invoked,     \* the collaborators this invocation has called
  path,        \* the exit path taken: "idem", "empty", "normal", "nodata", "exc"
  dbOpen,      \* the store connection is open
  closeCount,  \* Database.close calls of this invocation
  lateOps      \* a store operation was issued on a closed connection

ctlVars == << pc, cmd, today, cfg, fetched, results, thrown, outcome, invoked,
              path, dbOpen, closeCount, lateOps >>

VARIABLES
  spc,         \* summarize_papers: "off", "start", "gather", "returned"
  inPapers,    \* its argument `papers`
  tpc,         \* per paper, where its _do_one task stands
  tsum,        \* per paper, the task's local `summary`
  out,         \* the list summarize_papers returns
  storeFault   \* a save_summary call raised during this summarize_papers

sumVars == << spc, inPapers, tpc, tsum, out, storeFault >>

\* One LLMClient (llm.py 45-54) and the chat calls made on it.
VARIABLES
  clock,       \* time.monotonic(), in seconds
  rpm,         \* RateLimiter._rpm
  timestamps,  \* RateLimiter._timestamps
  lock,        \* RateLimiter._lock: 0 when free, else the call holding it
  sleep_until, \* the holder's wake-up time while it sleeps inside acquire
  max_concurrency, \* cfg.llm_max_concurrency
  semaphore,   \* LLMClient._semaphore: its value
  gpc,         \* per chat call, where it stands
  attempt,     \* per chat call, _post's attempt number (tenacity)
  retry_at,    \* per chat call, the end of tenacity's wait before the next attempt
  response,    \* per chat call, how its latest HTTP request ended: "none", "ok", "error"
  admitted,    \* the times at which RateLimiter.acquire returned, in order
  started      \* the times at which an HTTP request to the gateway started, in order

gateVars == << clock, rpm, timestamps, lock, sleep_until, max_concurrency, semaphore,
               gpc, attempt, retry_at, response, admitted, started >>

\* One call of _validate_summary (summarizer.py 87-107).
VARIABLES
  vpc,         \* "off", "call" before the call, "returned" after it
  vdata,       \* the argument `data`
  vresult      \* the mapping returned

valVars == << vpc, vdata, vresult >>

\* The store called operation by operation (db.py 59-171).
VARIABLES
  paper_rows,  \* papers table: its rows, each an arxiv_id with the other columns
  marked,      \* the channel arguments of the mark_sent calls made so far
  saved,       \* per identifier, the summary save_summary was last called with
  ret          \* the last store operation: its name, arguments and return value

dbVars == << paper_rows, marked, saved, ret >>

\* One call of push_digest followed channel by channel (push/__init__.py 16-74);
\* its settings are `cfg`, its mapping `results`, an exception that leaves it `thrown`.
VARIABLES
  pidx,        \* the number of configured channels the loop has handled
  attempts     \* per channel handled, its name and how the body of the try ended

pushVars == << pidx, attempts >>

\* One _do_one task followed with the contents of its summary
\* (summarizer.py 110-140, 159-180).
VARIABLES
  opc,         \* where the task stands: "first", "raw", "fix", "done", "failed"
  opaper,      \* its paper
  requests,    \* the prompts of the chat calls it has made, in order
  replies,     \* what each of these calls came to, in order
  osummary,    \* its local `summary`
  osaved       \* the summaries it has passed to a save_summary that succeeded

oneVars == << opc, opaper, requests, replies, osummary, osaved >>

\* What the controller and the summarizer's task model leave alone.
\* One call of _extract_json (llm.py 124-152).
VARIABLES
  epc,         \* "off", "call" before the call, "done" after it
  text,        \* the argument `text`: the model's reply
  extracted    \* how the call ended: the value returned or the exception raised

extractVars == << epc, text, extracted >>

\* Two processes inside Database.mark_sent on one store file (db.py 164-171),
\* each with its own connection.
VARIABLES
  mpc,         \* per process: "get_run" before line 165, "upsert_run" after it, "done"
  mchannel,    \* per process, its `channel` argument
  mrun,        \* per process, its local `run`: the row read at line 165
  mwriters     \* the processes whose upsert_run committed, in commit order

raceVars == << mpc, mchannel, mrun, mwriters >>

\* The process of cmd_run killed between push_digest and the store write that
\* follows it (cli.py 84-86).
VARIABLES
  killed       \* the channels that delivered the digest in an invocation killed there

crashVars == << killed >>

\* fetch_papers, page by page (fetcher.py 119-195).
VARIABLES
  fpc,         \* where fetch_papers is: "off", "page", "filter"
  npages,      \* the pages range(0, fetch_limit, page_size) holds
  page_idx,    \* the page of the loop
  fattempt,    \* the attempt number of _fetch_arxiv_page on this page
  all_papers,  \* the papers collected so far, in the catalog's order
  failure      \* the exception that ended the page loop of the last fetch, or "none"

fetchVars == << fpc, npages, page_idx, fattempt, all_papers, failure >>

auxVars == << gateVars, valVars, dbVars, timeVars, pushVars, oneVars, extractVars, raceVars, crashVars, fetchVars >>

vars == << storeVars, ctlVars, sumVars, auxVars >>

DefaultCfg == [push_channels_str |-> << >>, email_configured |-> TRUE, qq_configured |-> TRUE]

EmptyStore ==
  /\ papers = {}
  /\ summaries = [id \in PaperIds |-> NoSummary]
  /\ runs = [d \in {} |-> 0]

CtlIdle ==
  /\ cmd = "none" /\ today = "d1" /\ cfg = DefaultCfg
  /\ fetched = << >> /\ results = << >> /\ thrown = "none" /\ outcome = "none"
  /\ invoked = {} /\ path = "none"
  /\ dbOpen = FALSE /\ closeCount = 0 /\ lateOps = FALSE

SumOff ==
  /\ spc = "off" /\ inPapers = << >>
  /\ tpc = [id \in PaperIds |-> "idle"]
  /\ tsum = [id \in PaperIds |-> NoSummary]
  /\ out = << >> /\ storeFault = FALSE

\* The number of chat calls followed on one client.
MaxCalls == 2
Calls == 1..MaxCalls

\* No chat call is followed.
GateOff ==
  /\ clock = 0 /\ rpm = 1 /\ timestamps = << >> /\ lock = 0 /\ sleep_until = 0
  /\ max_concurrency = 1 /\ semaphore = 1
  /\ gpc = [c \in Calls |-> "off"]
  /\ attempt = [c \in Calls |-> 0]
  /\ retry_at = [c \in Calls |-> 0]
  /\ response = [c \in Calls |-> "none"]
  /\ admitted = << >> /\ started = << >>

ValOff == vpc = "off" /\ vdata = << >> /\ vresult = << >>

\* No store operation has been called. The fields of `ret` an operation does
\* not use keep these values.
NoPaper == [arxiv_id |-> 0, title |-> ""]

NoRet ==
  [op |-> "none", paper |-> NoPaper, ids |-> {}, len |-> 0, id |-> 0,
   summary |-> "none", old |-> "none", date |-> "none", channel |-> << >>,
   flag |-> FALSE, count |-> 0, rows |-> << >>, status |-> "none"]

DbOff ==
  /\ paper_rows = {} /\ marked = {} /\ ret = NoRet
  /\ saved = [id \in PaperIds |-> NoSummary]

\* The wall clock is not followed: every row written carries the time 0.
TimeOff == now_iso = 0

PushOff == pidx = 0 /\ attempts = << >>

OneOff ==
  /\ opc = "off" /\ opaper = << >> /\ requests = << >> /\ replies = << >>
  /\ osummary = << >> /\ osaved = << >>

ExtractOff == epc = "off" /\ text = << >> /\ extracted = << >>

RaceOff == mpc = << >> /\ mchannel = << >> /\ mrun = << >> /\ mwriters = << >>

CrashOff == killed = {}

FetchOff ==
  /\ fpc = "off" /\ npages = 0 /\ page_idx = 0 /\ fattempt = 0
  /\ all_papers = << >> /\ failure = "none"

AuxOff == GateOff /\ ValOff /\ DbOff /\ TimeOff /\ PushOff /\ OneOff /\ ExtractOff /\ RaceOff /\ CrashOff /\ FetchOff

\* A store operation issued now: late if the connection is already closed.
Touch == lateOps' = (lateOps \/ ~dbOpen)

\* db = Database() and the locals of a fresh invocation.
Begin(command, d, c) ==
  /\ cmd' = command /\ today' = d /\ cfg' = c
  /\ fetched' = << >> /\ results' = << >> /\ thrown' = "none" /\ outcome' = "none"
  /\ invoked' = {} /\ path' = "none"
  /\ dbOpen' = TRUE /\ closeCount' = 0 /\ lateOps' = FALSE

\* AlreadyCompleted with the test written as set equality.
AlreadyCompleted_Equal(d, c) ==
  /\ HasRun(d)
  /\ runs[d].status = "sent"
  /\ LET configured == SeqToSet(push_channels(c))
         already_sent == IF runs[d].sent_channels # << >>
                         THEN SeqToSet(Split(runs[d].sent_channels)) ELSE {}
     IN configured # {} /\ configured = already_sent

\* AlreadyCompleted with the subset test the wrong way round.
AlreadyCompleted_Reversed(d, c) ==
  /\ HasRun(d)
  /\ runs[d].status = "sent"
  /\ LET configured == SeqToSet(push_channels(c))
         already_sent == IF runs[d].sent_channels # << >>
                         THEN SeqToSet(Split(runs[d].sent_channels)) ELSE {}
     IN configured # {} /\ already_sent \subseteq configured

\* cli.py 54-57: the run is complete for this configuration.
AlreadyCompleted(d, c) ==
  /\ HasRun(d)
  /\ runs[d].status = "sent"
  /\ LET configured == SeqToSet(push_channels(c))
         already_sent == IF runs[d].sent_channels # << >>
                         THEN SeqToSet(Split(runs[d].sent_channels)) ELSE {}
     IN configured # {} /\ configured \subseteq already_sent

\* NothingFetched testing for None instead of emptiness: never true of a list.
NothingFetched_IsNone(ps) == FALSE

\* cli.py 64: `if not papers`
NothingFetched(ps) == ps = << >>

\* FinalStatus testing the configured channels instead of the succeeded ones.
FinalStatus_Configured(sent_channels) ==
  IF push_channels(cfg) # << >> THEN "sent" ELSE "rendered"

\* cli.py 86: the status recorded after the push stage
FinalStatus(sent_channels) == IF sent_channels # << >> THEN "sent" ELSE "rendered"

\* fetch_papers returns the catalog's order (newest first) with repeated ids
\* dropped, cut to max_papers_per_day: with the ids numbered in that order, a
\* strictly increasing sequence of at most MaxPapers ids.
Increasing(q) == \A i, j \in DOMAIN q : i < j => q[i] < q[j]

RECURSIVE IncreasingSeqs(_)
IncreasingSeqs(n) ==
  IF n = 0 THEN {<< >>}
  ELSE LET prev == IncreasingSeqs(n - 1)
           more == {Append(q, id) : q \in prev, id \in PaperIds}
       IN prev \cup {q \in more : Increasing(q)}

FetchResults == IncreasingSeqs(MaxPapers)

\* Database.upsert_papers run up to and including the k-th paper of the list.
upsert_papers(ps, k) == papers \cup {ps[i] : i \in 1..k}

\* What summarize_papers can leave in the summaries table: a paper that had a
\* summary keeps it; a paper of the list that had none ends with a parsed,
\* repaired or minimal summary, or with none (its task failed before saving).
SummarizeOutcomes(ps) ==
  { s \in [PaperIds -> SummaryTexts \cup {NoSummary}] :
      \A id \in PaperIds :
        \/ s[id] = summaries[id]
        \/ id \in SeqToSet(ps) /\ summaries[id] = NoSummary }

\* An exception escapes the current stage of cmd_run: control goes to the handler.
Raise(e) ==
  /\ thrown' = e
  /\ pc' = "r_except"

\* ---- cmd_run (cli.py 39-100)

\* cli.py 47-49, the process started with one of the settings of S
RunStartWith(S) ==
  /\ pc = "idle"
  /\ \E d \in Dates, c \in S : Begin("run", d, c)
  /\ pc' = "r_entry"
  /\ UNCHANGED << storeVars, sumVars, auxVars >>

\* cmd_run started with any settings
RunStart == RunStartWith(Settings)

\* cmd_run started again and again with the same lower-case settings
RunStartSame == RunStartWith(IF cmd = "none" THEN LowerCaseSettings ELSE {cfg})

\* cli.py 52-59: the idempotency check
RunEntryCheck ==
  /\ pc = "r_entry"
  /\ Touch
  /\ IF AlreadyCompleted(today, cfg)
     THEN pc' = "finally" /\ path' = "idem"
     ELSE pc' = "r_fetch" /\ path' = path
  /\ UNCHANGED << storeVars, sumVars, auxVars, cmd, today, cfg, fetched, results, thrown,
                  outcome, invoked, dbOpen, closeCount >>

\* cli.py 61-67: fetch, and the early return on no papers
RunFetch ==
  /\ pc = "r_fetch"
  /\ invoked' = invoked \cup {"fetch"}
  /\ \/ /\ Raise("FetchError")
        /\ UNCHANGED << storeVars, fetched, path, lateOps >>
     \/ \E ps \in FetchResults :
          /\ fetched' = ps
          /\ thrown' = thrown
          /\ IF NothingFetched(ps)
             THEN /\ runs' = upsert_run(today, "empty", << >>)
                  /\ Touch
                  /\ path' = "empty"
                  /\ pc' = "finally"
             ELSE /\ pc' = "r_upsert"
                  /\ UNCHANGED << runs, path, lateOps >>
          /\ UNCHANGED << papers, summaries >>
  /\ UNCHANGED << sumVars, auxVars, cmd, today, cfg, results, outcome, dbOpen, closeCount >>

\* cli.py 69: every row commits on its own, so a failure at the k-th paper
\* leaves the first k - 1 stored.
RunUpsertPapers ==
  /\ pc = "r_upsert"
  /\ invoked' = invoked \cup {"upsert"}
  /\ Touch
  /\ \/ /\ papers' = upsert_papers(fetched, Len(fetched))
        /\ pc' = "r_summarize"
        /\ thrown' = thrown
     \/ \E k \in 1..Len(fetched) :
          /\ papers' = upsert_papers(fetched, k - 1)
          /\ Raise("UpsertError")
  /\ UNCHANGED << summaries, runs, sumVars, auxVars, cmd, today, cfg, fetched, results,
                  outcome, path, dbOpen, closeCount >>

\* cli.py 74
RunSummarize ==
  /\ pc = "r_summarize"
  /\ invoked' = invoked \cup {"summarize"}
  /\ Touch
  /\ \E s \in SummarizeOutcomes(fetched) : summaries' = s
  /\ \/ pc' = "r_render" /\ thrown' = thrown
     \/ Raise("SummarizeError")
  /\ UNCHANGED << papers, runs, sumVars, auxVars, cmd, today, cfg, fetched, results,
                  outcome, path, dbOpen, closeCount >>

\* cli.py 78-79
RunRender ==
  /\ pc = "r_render"
  /\ invoked' = invoked \cup {"render"}
  /\ \/ pc' = "r_save" /\ thrown' = thrown
     \/ Raise("RenderError")
  /\ UNCHANGED << storeVars, sumVars, auxVars, cmd, today, cfg, fetched, results,
                  outcome, path, dbOpen, closeCount, lateOps >>

\* cli.py 80: _save_digest
RunSaveDigest ==
  /\ pc = "r_save"
  /\ invoked' = invoked \cup {"save"}
  /\ \/ pc' = "r_push" /\ thrown' = thrown
     \/ Raise("SaveError")
  /\ UNCHANGED << storeVars, sumVars, auxVars, cmd, today, cfg, fetched, results,
                  outcome, path, dbOpen, closeCount, lateOps >>

\* cli.py 84
RunPush ==
  /\ pc = "r_push"
  /\ invoked' = invoked \cup {"push"}
  /\ \/ /\ \E sends \in [1..Len(push_channels(cfg)) -> BOOLEAN] :
             results' = push_digest(cfg, sends)
        /\ pc' = "r_record"
        /\ thrown' = thrown
     \/ /\ Raise("PushError")
        /\ results' = results
  /\ UNCHANGED << storeVars, sumVars, auxVars, cmd, today, cfg, fetched,
                  outcome, path, dbOpen, closeCount, lateOps >>

\* cli.py 85-93
RunRecord ==
  /\ pc = "r_record"
  /\ LET sent_channels == SentChannels(results) IN
       runs' = upsert_run(today, FinalStatus(sent_channels), Join(sent_channels))
  /\ Touch
  /\ path' = "normal"
  /\ pc' = "finally"
  /\ UNCHANGED << papers, summaries, sumVars, auxVars, cmd, today, cfg, fetched, results,
                  thrown, outcome, invoked, dbOpen, closeCount >>

\* The handler without its `raise`: the failure is recorded and swallowed.
RunExcept_Swallow ==
  /\ pc = "r_except"
  /\ runs' = upsert_run(today, "failed", << >>)
  /\ Touch
  /\ path' = "swallowed"
  /\ pc' = "finally"
  /\ UNCHANGED << papers, summaries, sumVars, auxVars, cmd, today, cfg, fetched, results,
                  thrown, outcome, invoked, dbOpen, closeCount >>

\* The handler recording the failure without clearing the channels recorded.
RunExcept_KeepChannels ==
  /\ pc = "r_except"
  /\ runs' = upsert_run(today, "failed", IF HasRun(today) THEN runs[today].sent_channels ELSE << >>)
  /\ Touch
  /\ path' = "exc"
  /\ pc' = "finally"
  /\ UNCHANGED << papers, summaries, sumVars, auxVars, cmd, today, cfg, fetched, results,
                  thrown, outcome, invoked, dbOpen, closeCount >>

\* cli.py 95-98: the handler records the failure; `raise` re-raises after finally
RunExcept ==
  /\ pc = "r_except"
  /\ runs' = upsert_run(today, "failed", << >>)
  /\ Touch
  /\ path' = "exc"
  /\ pc' = "finally"
  /\ UNCHANGED << papers, summaries, sumVars, auxVars, cmd, today, cfg, fetched, results,
                  thrown, outcome, invoked, dbOpen, closeCount >>

\* db.close() at the end of the try body instead of in `finally`: an exception
\* leaves the connection open.
Finally_NoCloseOnError ==
  /\ pc = "finally"
  /\ dbOpen' = (path = "exc")
  /\ closeCount' = IF path = "exc" THEN closeCount ELSE closeCount + 1
  /\ outcome' = IF path = "exc" THEN thrown ELSE "returned"
  /\ pc' = "idle"
  /\ UNCHANGED << storeVars, sumVars, auxVars, cmd, today, cfg, fetched, results, thrown,
                  invoked, path, lateOps >>

\* cli.py 99-100 and 175-176: db.close(), then the return or the raise
Finally ==
  /\ pc = "finally"
  /\ dbOpen' = FALSE
  /\ closeCount' = closeCount + 1
  /\ outcome' = IF path = "exc" THEN thrown ELSE "returned"
  /\ pc' = "idle"
  /\ UNCHANGED << storeVars, sumVars, auxVars, cmd, today, cfg, fetched, results, thrown,
                  invoked, path, lateOps >>

\* ---- cmd_send (cli.py 137-176)

\* An exception escapes a stage of cmd_send: there is no handler, only finally.
Escape(e) ==
  /\ thrown' = e
  /\ path' = "exc"
  /\ pc' = "finally"

\* cli.py 143-145
SendStart ==
  /\ pc = "idle"
  /\ \E d \in Dates, c \in Settings : Begin("send", d, c)
  /\ pc' = "s_load"
  /\ UNCHANGED << storeVars, sumVars, auxVars >>

\* cli.py 147-163
SendLoad ==
  /\ pc = "s_load"
  /\ Touch
  /\ IF papers_with_summaries = {}
     THEN pc' = "finally" /\ path' = "nodata"
     ELSE pc' = "s_render" /\ path' = path
  /\ UNCHANGED << storeVars, sumVars, auxVars, cmd, today, cfg, fetched, results, thrown,
                  outcome, invoked, dbOpen, closeCount >>

\* cli.py 165-167
SendRender ==
  /\ pc = "s_render"
  /\ \/ /\ invoked' = invoked \cup {"render", "save"}
        /\ pc' = "s_push" /\ thrown' = thrown /\ path' = path
     \/ /\ invoked' = invoked \cup {"render"}
        /\ Escape("RenderError")
     \/ /\ invoked' = invoked \cup {"render", "save"}
        /\ Escape("SaveError")
  /\ UNCHANGED << storeVars, sumVars, auxVars, cmd, today, cfg, fetched, results,
                  outcome, dbOpen, closeCount, lateOps >>

\* cli.py 168
SendPush ==
  /\ pc = "s_push"
  /\ invoked' = invoked \cup {"push"}
  /\ \E sends \in [1..Len(push_channels(cfg)) -> BOOLEAN] :
       results' = push_digest(cfg, sends)
  /\ pc' = "s_mark"
  /\ UNCHANGED << storeVars, sumVars, auxVars, cmd, today, cfg, fetched, thrown,
                  outcome, path, dbOpen, closeCount, lateOps >>

\* As SendMark, but the channels of this call replace what was recorded.
SendMark_Overwrite ==
  /\ pc = "s_mark"
  /\ LET sent == SentChannels(results) IN
       IF sent # << >>
       THEN runs' = upsert_run(today, "sent", Join(sent)) /\ Touch
       ELSE UNCHANGED << runs, lateOps >>
  /\ path' = "normal"
  /\ pc' = "finally"
  /\ UNCHANGED << papers, summaries, sumVars, auxVars, cmd, today, cfg, fetched, results,
                  thrown, outcome, invoked, dbOpen, closeCount >>

\* cli.py 169-174
SendMark ==
  /\ pc = "s_mark"
  /\ LET sent == SentChannels(results) IN
       IF sent # << >>
       THEN runs' = mark_sent(today, Join(sent)) /\ Touch
       ELSE UNCHANGED << runs, lateOps >>
  /\ path' = "normal"
  /\ pc' = "finally"
  /\ UNCHANGED << papers, summaries, sumVars, auxVars, cmd, today, cfg, fetched, results,
                  thrown, outcome, invoked, dbOpen, closeCount >>

Init == EmptyStore /\ CtlIdle /\ SumOff /\ AuxOff /\ pc = "idle"

Next ==
  \/ RunStart \/ RunEntryCheck \/ RunFetch \/ RunUpsertPapers \/ RunSummarize
  \/ RunRender \/ RunSaveDigest \/ RunPush \/ RunRecord \/ RunExcept \/ Finally
  \/ SendStart \/ SendLoad \/ SendRender \/ SendPush \/ SendMark

Spec == Init /\ [][Next]_vars

\* cmd_run alone, invoked any number of times with the same lower-case settings.
NextRun ==
  \/ RunStartSame \/ RunEntryCheck \/ RunFetch \/ RunUpsertPapers \/ RunSummarize
  \/ RunRender \/ RunSaveDigest \/ RunPush \/ RunRecord \/ RunExcept \/ Finally

SpecRun == Init /\ [][NextRun]_vars

\* ---------------------------------------------------------------- claims

\* The recorded sent-channel set of run d in the runs table rs.
Recorded(rs, d) ==
  IF d \in DOMAIN rs
  THEN {c \in SeqToSet(Split(rs[d].sent_channels)) : c # << >>}
  ELSE {}

Configured == SeqToSet(push_channels(cfg))

StatusOf(d) == IF HasRun(d) THEN runs[d].status ELSE "pending"

\* The run is recorded as sent and every configured channel is recorded.
SentToAllConfigured ==
  /\ StatusOf(today) = "sent"
  /\ Configured \subseteq Recorded(runs, today)

\* The stages of cmd_run from the fetch to the recording of the push result.
PipelineStages ==
  {"r_fetch", "r_upsert", "r_summarize", "r_render", "r_save", "r_push", "r_record"}

\* C1: when cmd_run starts on a run recorded as sent, with a non-empty
\* configured channel set all of whose names are recorded as sent, it takes the
\* early return: no collaborator (fetch, paper upsert, summarize, render,
\* digest save, push) is called, papers, summaries and the run record stay as
\* they were, and the command returns normally.
C1_IdempotentRunChangesNothing ==
  [][ /\ (cmd = "run" /\ pc = "r_entry" /\ Configured # {} /\ SentToAllConfigured)
         => (pc' = "finally" /\ path' = "idem")
      /\ (path' = "idem")
         => (UNCHANGED storeVars /\ invoked' = {}
             /\ (pc' = "idle" => outcome' = "returned")) ]_vars

C1_Witness ==
  /\ cmd = "run" /\ pc = "idle" /\ path = "idem" /\ outcome = "returned"
  /\ papers # {} /\ invoked = {}

\* C2 (as amended): for every non-empty set of configured channels, cmd_run
\* never stands at the fetch stage or any later stage of the pipeline while
\* the run is recorded as sent with every configured channel recorded.
C2_NonEmptyConfigStopsBeforeFetch ==
  (cmd = "run" /\ pc \in PipelineStages)
    => ~(Configured # {} /\ SentToAllConfigured)

C2_Witness ==
  /\ cmd = "run" /\ pc = "finally" /\ path = "idem"
  /\ Cardinality(Configured) = 2 /\ invoked = {}

\* C2 (as claimed): for every set of configured channels, of any size, the
\* empty one included, cmd_run never gets to the fetch stage while the run is
\* recorded as sent with every configured channel recorded.
C2_AnyConfigStopsBeforeFetch ==
  (cmd = "run" /\ pc \in PipelineStages) => ~SentToAllConfigured

\* C3: over any sequence of cmd_run invocations for one date, a push of
\* cmd_run never succeeds for a channel that is already recorded as sent.
C3_NoSecondPush ==
  [][ (cmd = "run" /\ pc = "r_push" /\ pc' = "r_record")
        => \A i \in DOMAIN results' :
             results'[i].ok => results'[i].key \notin Recorded(runs, today) ]_vars

\* C4: the recorded sent-channel set of a run only grows.
C4_SentSetOnlyGrows ==
  [][ \A d \in Dates : Recorded(runs, d) \subseteq Recorded(runs', d) ]_vars

\* C5: once a run's status is sent, every status recorded later is sent or
\* failed.
C5_SentStaysSent ==
  [][ \A d \in DOMAIN runs :
        runs[d].status = "sent" => runs'[d].status \in {"sent", "failed"} ]_vars

\* C6: when cmd_run has passed the push stage and returns normally, the status
\* it recorded is sent if at least one channel of the push result succeeded and
\* rendered otherwise.
C6_FinalStatusFollowsPush ==
  (cmd = "run" /\ path = "normal" /\ pc \in {"finally", "idle"})
    => /\ "push" \in invoked
       /\ StatusOf(today) =
            IF \E i \in DOMAIN results : results[i].ok THEN "sent" ELSE "rendered"
       /\ (pc = "idle" => outcome = "returned")

C6_Witness ==
  /\ cmd = "run" /\ path = "normal" /\ pc = "idle"
  /\ Configured # {} /\ StatusOf(today) = "rendered"

\* C7: when fetch returns no papers, cmd_run records status empty, calls
\* nothing but fetch (no paper upsert, summarize, render, save or push) and
\* returns normally.
C7_EmptyFetchStops ==
  (cmd = "run" /\ "fetch" \in invoked /\ thrown = "none" /\ fetched = << >>)
    => /\ pc \in {"finally", "idle"}
       /\ StatusOf(today) = "empty"
       /\ invoked = {"fetch"}
       /\ (pc = "idle" => outcome = "returned")

C7_Witness ==
  /\ cmd = "run" /\ pc = "idle" /\ "fetch" \in invoked /\ fetched = << >>
  /\ thrown = "none" /\ papers # {}

\* C8: when an exception escapes a stage of cmd_run, the handler records the
\* run as failed and cmd_run ends by raising that same exception.
C8_FailureRecordedAndReraised ==
  (cmd = "run" /\ thrown # "none")
    => \/ pc = "r_except"
       \/ /\ pc \in {"finally", "idle"}
          /\ StatusOf(today) = "failed"
          /\ (pc = "idle" => outcome = thrown)

C8_Witness ==
  /\ cmd = "run" /\ pc = "idle" /\ outcome = "SummarizeError"
  /\ StatusOf(today) = "failed" /\ papers # {}

\* C9: on every exit path of cmd_run the connection is open until the end,
\* closed exactly once at the end, and no store operation follows the close.
C9_ClosedExactlyOnce ==
  /\ ~lateOps
  /\ (cmd = "run" /\ pc # "idle") => (dbOpen /\ closeCount = 0)
  /\ (cmd = "run" /\ pc = "idle") => (~dbOpen /\ closeCount = 1)

C9_Witness ==
  /\ cmd = "run" /\ pc = "idle" /\ path = "exc" /\ closeCount = 1 /\ ~dbOpen

\* ------------------------------------------------------------ summarizer

\* What one LLMClient.chat call can come to (llm.py 77-98), as the caller
\* sees it after _post's retries:
\*   "error"        an exception that is not a ValueError (httpx transport or
\*                  status error, KeyError on a malformed choice)
\*   "valueerror"   a ValueError raised by chat itself (no choices, or a body
\*                  that is not JSON)
\*   "text_bad"     a reply text from which _extract_json parses nothing
\*   "text_nondict" a reply text that parses to JSON that is not an object
\*   "text_dict"    a reply text that parses to a JSON object
ModelReplies == {"error", "valueerror", "text_bad", "text_nondict", "text_dict"}

\* As to_summarize, but without the look into the store.
to_summarize_All == SeqToSet(inPapers)

\* to_summarize taking a stored minimal summary for no summary at all.
to_summarize_NotMinimal ==
  {id \in SeqToSet(inPapers) : ~has_summary(id) \/ summaries[id] = json_dumps("minimal")}

\* summarizer.py 152
to_summarize == {id \in SeqToSet(inPapers) : ~has_summary(id)}

\* summarizer.py 163-168 on a summary summarize_one returned: the links are
\* set and the summary saved; a failing save lands in _do_one's handler
\* (169-179), which builds a minimal summary and saves nothing.
SaveReturned(id, summary, saveOk) ==
  IF saveOk
  THEN /\ tpc' = [tpc EXCEPT ![id] = "done"]
       /\ summaries' = save_summary(id, summary)
       /\ tsum' = [tsum EXCEPT ![id] = summary]
       /\ storeFault' = storeFault
  ELSE /\ tpc' = [tpc EXCEPT ![id] = "failed"]
       /\ summaries' = summaries
       /\ tsum' = [tsum EXCEPT ![id] = "minimal"]
       /\ storeFault' = TRUE

\* As TaskFailed, but without the handler of _do_one and without
\* return_exceptions: the exception leaves gather, and the tasks still
\* running are cancelled when the event loop shuts down.
TaskFailed_Propagate(id) ==
  /\ tpc' = [o \in PaperIds |->
              IF o = id THEN "failed"
              ELSE IF tpc[o] \in {"first", "raw", "fix"} THEN "cancelled" ELSE tpc[o]]
  /\ tsum' = [tsum EXCEPT ![id] = "minimal"]
  /\ UNCHANGED << summaries, storeFault >>

\* summarizer.py 169-180: an exception escaped summarize_one; the handler
\* builds a minimal summary, which is returned and not saved. The task ends
\* as "failed"; a task that saved its summary ends as "done".
TaskFailed(id) ==
  /\ tpc' = [tpc EXCEPT ![id] = "failed"]
  /\ tsum' = [tsum EXCEPT ![id] = "minimal"]
  /\ UNCHANGED << summaries, storeFault >>

\* summarizer.py 149-157, 182: the partition and the creation of the tasks
SumPartition ==
  /\ spc = "start"
  /\ tpc' = [id \in PaperIds |-> IF id \in to_summarize THEN "first" ELSE "idle"]
  /\ spc' = "gather"
  /\ UNCHANGED << storeVars, ctlVars, auxVars, inPapers, tsum, out, storeFault >>

\* summarizer.py 117-121: the first chat_json call returns. A ValueError goes
\* on to the repair; any other exception (also _validate_summary's TypeError on
\* JSON that is not an object) leaves summarize_one.
TaskFirst(id) ==
  /\ spc = "gather" /\ tpc[id] = "first"
  /\ \E reply \in ModelReplies, saveOk \in BOOLEAN :
       CASE reply = "text_dict" -> SaveReturned(id, "parsed", saveOk)
         [] reply \in {"valueerror", "text_bad"} ->
              /\ tpc' = [tpc EXCEPT ![id] = "raw"]
              /\ UNCHANGED << summaries, tsum, storeFault >>
         [] OTHER -> TaskFailed(id)
  /\ UNCHANGED << papers, runs, ctlVars, auxVars, spc, inPapers, out >>

\* summarizer.py 125: the repair's raw = chat(messages) returns; any exception
\* is caught at 129 and the minimal summary returned.
TaskRaw(id) ==
  /\ spc = "gather" /\ tpc[id] = "raw"
  /\ \E reply \in ModelReplies, saveOk \in BOOLEAN :
       IF reply \in {"error", "valueerror"}
       THEN SaveReturned(id, "minimal", saveOk)
       ELSE /\ tpc' = [tpc EXCEPT ![id] = "fix"]
            /\ UNCHANGED << summaries, tsum, storeFault >>
  /\ UNCHANGED << papers, runs, ctlVars, auxVars, spc, inPapers, out >>

\* summarizer.py 126-140: the repair's chat_json returns
TaskFix(id) ==
  /\ spc = "gather" /\ tpc[id] = "fix"
  /\ \E reply \in ModelReplies, saveOk \in BOOLEAN :
       SaveReturned(id, IF reply = "text_dict" THEN "repaired" ELSE "minimal", saveOk)
  /\ UNCHANGED << papers, runs, ctlVars, auxVars, spc, inPapers, out >>

\* As SumCollect, but a paper that had a task is paired with the summary its
\* task returned to gather.
SumCollect_FromTasks ==
  /\ spc = "gather"
  /\ \A id \in PaperIds : tpc[id] \in {"idle", "done", "failed"}
  /\ out' = [i \in DOMAIN inPapers |->
               [arxiv_id |-> inPapers[i],
                summary |-> IF tpc[inPapers[i]] = "idle" THEN get_summary(inPapers[i])
                            ELSE tsum[inPapers[i]]]]
  /\ spc' = "returned"
  /\ UNCHANGED << storeVars, ctlVars, auxVars, inPapers, tpc, tsum, storeFault >>

\* summarizer.py 183-199: gather is over; every input paper is paired with
\* what the store holds for it (None when it holds nothing; the summaries
\* saved are never empty mappings, so `if s` only tests for None).
SumCollect ==
  /\ spc = "gather"
  /\ \A id \in PaperIds : tpc[id] \in {"idle", "done", "failed"}
  /\ out' = [i \in DOMAIN inPapers |->
               [arxiv_id |-> inPapers[i], summary |-> get_summary(inPapers[i])]]
  /\ spc' = "returned"
  /\ UNCHANGED << storeVars, ctlVars, auxVars, inPapers, tpc, tsum, storeFault >>

\* summarize_papers is called on a non-empty list of stored papers (cli.py 69-74,
\* 126-131), some of which may have a summary already.
InitSum ==
  /\ CtlIdle /\ AuxOff /\ pc = "off"
  /\ runs = [d \in {} |-> 0]
  /\ inPapers \in FetchResults \ {<< >>}
  /\ papers \in {S \in SUBSET PaperIds : SeqToSet(inPapers) \subseteq S}
  /\ summaries \in {s \in [PaperIds -> SummaryTexts \cup {NoSummary}] :
                      \A id \in PaperIds : s[id] # NoSummary => id \in papers}
  /\ spc = "start"
  /\ tpc = [id \in PaperIds |-> "idle"]
  /\ tsum = [id \in PaperIds |-> NoSummary]
  /\ out = << >> /\ storeFault = FALSE

NextSum ==
  \/ SumPartition
  \/ \E id \in PaperIds : TaskFirst(id) \/ TaskRaw(id) \/ TaskFix(id)
  \/ SumCollect

SpecSum == InitSum /\ [][NextSum]_vars

\* C10: when summarize_papers returns and no store write failed, every input
\* paper has a summary in the store and no entry of the returned list carries
\* None, whatever the model gateway replied.
C10_EveryPaperSummarized ==
  (spc = "returned" /\ ~storeFault)
    => \A i \in DOMAIN inPapers :
         /\ summaries[inPapers[i]] # NoSummary
         /\ out[i].summary # NoSummary

\* The tasks gather is waiting for.
Running == {id \in PaperIds : tpc[id] \in {"first", "raw", "fix"}}

\* C24: a step of one paper's task, its failure included (transport error,
\* malformed reply, store write error), changes neither the position nor the
\* summary of any other task nor what the store holds for another paper;
\* summarize_papers returns only when every task has ended, none of them
\* cancelled, with the summary of every task that did not fail itself saved;
\* and no exception leaves summarize_papers.
C24_TaskFailureIsLocal ==
  [][ /\ \A id \in Running :
           tpc'[id] # tpc[id]
             => \A o \in PaperIds \ {id} :
                  tpc'[o] = tpc[o] /\ tsum'[o] = tsum[o] /\ summaries'[o] = summaries[o]
      /\ spc' \in {"start", "gather", "returned"}
      /\ spc' = "returned"
           => \A id \in PaperIds :
                /\ tpc'[id] \in {"idle", "done", "failed"}
                /\ tpc'[id] = "done" => summaries'[id] = json_dumps(tsum'[id]) ]_vars

\* summarize_papers has returned: one task failed and saved nothing, the
\* other went through the repair and its summary is in the store.
C24_Witness ==
  /\ spc = "returned"
  /\ \E id \in PaperIds : tpc[id] = "failed" /\ summaries[id] = NoSummary
  /\ \E id \in PaperIds : tpc[id] = "done" /\ summaries[id] = json_dumps("repaired")

\* C25: whatever the order in which the tasks ran and ended, the list
\* summarize_papers returns has the length and the order of its input, and
\* entry i pairs input paper i with the summary the store holds for its
\* identifier, or with None when the store holds none.
C25_OutputFollowsInput ==
  spc = "returned"
    => /\ Len(out) = Len(inPapers)
       /\ \A i \in DOMAIN inPapers :
            /\ out[i].arxiv_id = inPapers[i]
            /\ out[i].summary =
                 IF summaries[inPapers[i]] = NoSummary THEN NoSummary
                 ELSE json_loads(summaries[inPapers[i]])

\* Two papers were given: the task of the first failed and left nothing in
\* the store, the second has its summary.
C25_Witness ==
  /\ spc = "returned" /\ Len(out) = 2
  /\ tpc[inPapers[1]] = "failed" /\ out[1].summary = NoSummary
  /\ tpc[inPapers[2]] = "done" /\ out[2].summary = "parsed"

\* C29: an input paper that has a summary in the store when summarize_papers
\* starts gets no task, so that no model request is made and no summary saved
\* for it; its stored summary is never changed, and it is the summary paired
\* with the paper in the list returned.
C29_CachedPapersSkipped ==
  [][ /\ (spc = "start" /\ spc' = "gather")
           => \A id \in SeqToSet(inPapers) : has_summary(id) => tpc'[id] = "idle"
      /\ \A id \in PaperIds :
           (spc # "start" /\ tpc[id] = "idle")
             => tpc'[id] = "idle" /\ summaries'[id] = summaries[id]
      /\ spc' = "returned"
           => \A i \in DOMAIN inPapers :
                tpc'[inPapers[i]] = "idle"
                  => /\ summaries'[inPapers[i]] # NoSummary
                     /\ out'[i].summary = json_loads(summaries'[inPapers[i]]) ]_vars

\* Of two papers given, the first had a summary and got no task, the second
\* was summarized.
C29_Witness ==
  /\ spc = "returned" /\ Len(inPapers) = 2
  /\ tpc[inPapers[1]] = "idle" /\ out[1].summary = "repaired"
  /\ tpc[inPapers[2]] = "done" /\ out[2].summary = "parsed"

\* ------------------------------------------------- rate and concurrency gates

\* llm.py 32, 36: the length of the rate window, in seconds
Window == 60

\* llm.py 63-64: _post's retry policy
stop_after_attempt == 3
wait_multiplier == 2
wait_min == 4
wait_max == 60

\* The ends of the ranges the settings are drawn from, and the number of advances of the clock.
MaxRpm == 1
MaxConcurrency == 1
MaxTicks == 3

Min2(a, b) == IF a < b THEN a ELSE b
Max2(a, b) == IF a > b THEN a ELSE b

\* tenacity's wait_exponential(multiplier=2, min=4, max=60) after attempt n
wait_exponential(n) ==
  Max2(wait_min, Min2(wait_multiplier * 2^(n - 1), wait_max))

\* llm.py 32-33: the timestamps younger than the window
Purge(ts, now) == SelectSeq(ts, LAMBDA t : t > now - Window)

\* llm.py 86, 93: the chat calls inside `async with self._semaphore`, that is
\* inside _post, its retry waits included
InFlight == {c \in Calls : gpc[c] \in {"post", "wait"}}

\* llm.py 29-42 up to the first suspension: the lock is taken, old timestamps
\* are purged, and the call either sleeps with the lock held or records its
\* admission and leaves.
AcquireEnter(c) ==
  /\ gpc[c] = "acquire" /\ lock = 0
  /\ \A b \in Calls : b < c => gpc[b] # "acquire"
  /\ LET now == clock
         kept == Purge(timestamps, now)
     IN IF Len(kept) >= rpm /\ (kept[1] + Window) - now > 0
        THEN /\ timestamps' = kept
             /\ lock' = c /\ sleep_until' = kept[1] + Window
             /\ gpc' = [gpc EXCEPT ![c] = "sleep"]
             /\ UNCHANGED admitted
        ELSE /\ timestamps' = Append(kept, now)
             /\ admitted' = Append(admitted, now)
             /\ gpc' = [gpc EXCEPT ![c] = "semaphore"]
             /\ UNCHANGED << lock, sleep_until >>
  /\ UNCHANGED << storeVars, ctlVars, sumVars, fetchVars, crashVars, raceVars, extractVars, oneVars, pushVars, timeVars, valVars, dbVars, clock, rpm, max_concurrency,
                  semaphore, attempt, retry_at, started, response >>

\* As AcquireWake, but the sleeper wakes at any time.
AcquireWake_Early(c) ==
  /\ gpc[c] = "sleep" /\ lock = c
  /\ timestamps' = Append(timestamps, clock)
  /\ admitted' = Append(admitted, clock)
  /\ lock' = 0 /\ sleep_until' = 0
  /\ gpc' = [gpc EXCEPT ![c] = "semaphore"]
  /\ UNCHANGED << storeVars, ctlVars, sumVars, fetchVars, crashVars, raceVars, extractVars, oneVars, pushVars, timeVars, valVars, dbVars, clock, rpm, max_concurrency,
                  semaphore, attempt, retry_at, started, response >>

\* llm.py 40-42: asyncio.sleep returns no earlier than asked; the timestamp of
\* the admission is appended and the lock released.
AcquireWake(c) ==
  /\ gpc[c] = "sleep" /\ lock = c
  /\ clock >= sleep_until
  /\ timestamps' = Append(timestamps, clock)
  /\ admitted' = Append(admitted, clock)
  /\ lock' = 0 /\ sleep_until' = 0
  /\ gpc' = [gpc EXCEPT ![c] = "semaphore"]
  /\ UNCHANGED << storeVars, ctlVars, sumVars, fetchVars, crashVars, raceVars, extractVars, oneVars, pushVars, timeVars, valVars, dbVars, clock, rpm, max_concurrency,
                  semaphore, attempt, retry_at, started, response >>

\* As SemaphoreEnter, but without waiting for a free slot.
SemaphoreEnter_NoWait(c) ==
  /\ gpc[c] = "semaphore"
  /\ \A b \in Calls : b < c => gpc[b] \notin {"acquire", "sleep", "semaphore"}
  /\ semaphore' = semaphore - 1
  /\ gpc' = [gpc EXCEPT ![c] = "post"]
  /\ attempt' = [attempt EXCEPT ![c] = 1]
  /\ started' = Append(started, clock)
  /\ UNCHANGED << storeVars, ctlVars, sumVars, fetchVars, crashVars, raceVars, extractVars, oneVars, pushVars, timeVars, valVars, dbVars, clock, rpm, timestamps, lock,
                  sleep_until, max_concurrency, retry_at, admitted, response >>

\* llm.py 86-93, 67-73: a slot of the semaphore is taken and _post sends its
\* first request.
SemaphoreEnter(c) ==
  /\ gpc[c] = "semaphore"
  /\ \A b \in Calls : b < c => gpc[b] \notin {"acquire", "sleep", "semaphore"}
  /\ semaphore > 0
  /\ semaphore' = semaphore - 1
  /\ gpc' = [gpc EXCEPT ![c] = "post"]
  /\ attempt' = [attempt EXCEPT ![c] = 1]
  /\ started' = Append(started, clock)
  /\ UNCHANGED << storeVars, ctlVars, sumVars, fetchVars, crashVars, raceVars, extractVars, oneVars, pushVars, timeVars, valVars, dbVars, clock, rpm, timestamps, lock,
                  sleep_until, max_concurrency, retry_at, admitted, response >>

\* llm.py 74-75, 93: the request succeeded; _post returns and the slot is freed.
PostReturn(c) ==
  /\ gpc[c] = "post"
  /\ semaphore' = semaphore + 1
  /\ gpc' = [gpc EXCEPT ![c] = "returned"]
  /\ attempt' = [attempt EXCEPT ![c] = 0]
  /\ response' = [response EXCEPT ![c] = "ok"]
  /\ UNCHANGED << storeVars, ctlVars, sumVars, fetchVars, crashVars, raceVars, extractVars, oneVars, pushVars, timeVars, valVars, dbVars, clock, rpm, timestamps, lock,
                  sleep_until, max_concurrency, retry_at, admitted, started >>

\* As PostRaise, but the exception leaves without freeing the slot.
PostRaise_KeepSlot(c) ==
  /\ gpc[c] = "post"
  /\ IF attempt[c] >= stop_after_attempt
     THEN /\ semaphore' = semaphore
          /\ gpc' = [gpc EXCEPT ![c] = "raised"]
          /\ attempt' = [attempt EXCEPT ![c] = 0]
          /\ UNCHANGED retry_at
     ELSE /\ retry_at' = [retry_at EXCEPT ![c] = clock + wait_exponential(attempt[c])]
          /\ gpc' = [gpc EXCEPT ![c] = "wait"]
          /\ UNCHANGED << semaphore, attempt >>
  /\ response' = [response EXCEPT ![c] = "error"]
  /\ UNCHANGED << storeVars, ctlVars, sumVars, fetchVars, crashVars, raceVars, extractVars, oneVars, pushVars, timeVars, valVars, dbVars, clock, rpm, timestamps, lock,
                  sleep_until, max_concurrency, admitted, started >>

\* As PostRaise, but the failure of the last attempt is swallowed and _post
\* returns.
PostRaise_Swallow(c) ==
  /\ gpc[c] = "post"
  /\ IF attempt[c] >= stop_after_attempt
     THEN /\ semaphore' = semaphore + 1
          /\ gpc' = [gpc EXCEPT ![c] = "returned"]
          /\ attempt' = [attempt EXCEPT ![c] = 0]
          /\ UNCHANGED retry_at
     ELSE /\ retry_at' = [retry_at EXCEPT ![c] = clock + wait_exponential(attempt[c])]
          /\ gpc' = [gpc EXCEPT ![c] = "wait"]
          /\ UNCHANGED << semaphore, attempt >>
  /\ response' = [response EXCEPT ![c] = "error"]
  /\ UNCHANGED << storeVars, ctlVars, sumVars, fetchVars, crashVars, raceVars, extractVars, oneVars, pushVars, timeVars, valVars, dbVars, clock, rpm, timestamps, lock,
                  sleep_until, max_concurrency, admitted, started >>

\* llm.py 62-74: the request raised. After the last attempt the exception
\* leaves _post (reraise=True: the exception of that attempt) and the slot is
\* freed; before it, tenacity waits.
PostRaise(c) ==
  /\ gpc[c] = "post"
  /\ IF attempt[c] >= stop_after_attempt
     THEN /\ semaphore' = semaphore + 1
          /\ gpc' = [gpc EXCEPT ![c] = "raised"]
          /\ attempt' = [attempt EXCEPT ![c] = 0]
          /\ UNCHANGED retry_at
     ELSE /\ retry_at' = [retry_at EXCEPT ![c] = clock + wait_exponential(attempt[c])]
          /\ gpc' = [gpc EXCEPT ![c] = "wait"]
          /\ UNCHANGED << semaphore, attempt >>
  /\ response' = [response EXCEPT ![c] = "error"]
  /\ UNCHANGED << storeVars, ctlVars, sumVars, fetchVars, crashVars, raceVars, extractVars, oneVars, pushVars, timeVars, valVars, dbVars, clock, rpm, timestamps, lock,
                  sleep_until, max_concurrency, admitted, started >>

\* llm.py 62-73: the wait is over and _post sends the request again, still
\* inside the semaphore and without passing RateLimiter.acquire.
PostRetry(c) ==
  /\ gpc[c] = "wait"
  /\ clock >= retry_at[c]
  /\ attempt' = [attempt EXCEPT ![c] = attempt[c] + 1]
  /\ retry_at' = [retry_at EXCEPT ![c] = 0]
  /\ gpc' = [gpc EXCEPT ![c] = "post"]
  /\ started' = Append(started, clock)
  /\ response' = [response EXCEPT ![c] = "none"]
  /\ UNCHANGED << storeVars, ctlVars, sumVars, fetchVars, crashVars, raceVars, extractVars, oneVars, pushVars, timeVars, valVars, dbVars, clock, rpm, timestamps, lock,
                  sleep_until, max_concurrency, semaphore, admitted >>

\* The delays time advances by: the shortest wait of the retry policy, or a
\* whole window.
Delays == {wait_min, Window}

\* The number of advances that led to the present time.
Ticks == (clock \div Window) + ((clock % Window) \div wait_min)

\* Time passes while a call sleeps, waits or has a request under way.
Tick ==
  /\ \E c \in Calls : gpc[c] \in {"sleep", "post", "wait"}
  /\ Ticks < MaxTicks
  /\ \E d \in Delays : clock' = clock + d
  /\ UNCHANGED << storeVars, ctlVars, sumVars, fetchVars, crashVars, raceVars, extractVars, oneVars, pushVars, timeVars, valVars, dbVars, rpm, timestamps, lock, sleep_until,
                  max_concurrency, semaphore, gpc, attempt, retry_at, admitted, started, response >>

\* llm.py 48-54 and 84: a fresh client, and every chat call about to enter
\* RateLimiter.acquire (a call that arrives later waits here). The calls are
\* numbered in the order of their arrival: asyncio.Lock and asyncio.Semaphore
\* serve their waiters first come, first served.
InitGate ==
  /\ EmptyStore /\ CtlIdle /\ SumOff /\ ValOff /\ DbOff /\ TimeOff /\ PushOff /\ OneOff /\ ExtractOff /\ RaceOff /\ CrashOff /\ FetchOff /\ pc = "off"
  /\ clock = 0
  /\ rpm \in 1..MaxRpm
  /\ timestamps = << >> /\ lock = 0 /\ sleep_until = 0
  /\ max_concurrency \in 1..MaxConcurrency
  /\ semaphore = max_concurrency
  /\ gpc = [c \in Calls |-> "acquire"]
  /\ attempt = [c \in Calls |-> 0]
  /\ retry_at = [c \in Calls |-> 0]
  /\ response = [c \in Calls |-> "none"]
  /\ admitted = << >> /\ started = << >>

NextGate ==
  \/ \E c \in Calls : AcquireEnter(c) \/ AcquireWake(c) \/ SemaphoreEnter(c)
  \/ \E c \in Calls : PostReturn(c) \/ PostRaise(c) \/ PostRetry(c)
  \/ Tick

SpecGate == InitGate /\ [][NextGate]_vars

\* C11: at most max_concurrency chat calls are inside _post (its retry waits
\* included) at any time, however many calls are queued.
C11_AtMostKInFlight == Cardinality(InFlight) <= max_concurrency

\* Every slot is taken and a further call waits for one.
C11_Witness ==
  /\ Cardinality(InFlight) = max_concurrency
  /\ \E c \in Calls : gpc[c] = "semaphore"
  /\ \E c \in Calls : gpc[c] = "wait"

\* The admissions inside the window that ends at time t: those a purge at t
\* (llm.py 32-33) would keep, and t's own.
AdmittedWithin(t) ==
  {j \in DOMAIN admitted : admitted[j] > t - Window /\ admitted[j] <= t}

RollingAdmissions ==
  \A i \in DOMAIN admitted : Cardinality(AdmittedWithin(admitted[i])) <= rpm

\* C12: a call that enters RateLimiter.acquire while rpm timestamps are inside
\* the window is suspended, it is admitted only once the oldest of them is a
\* whole window old, and no window holds more than rpm admissions.
C12_RateWindow ==
  [][ /\ \A c \in Calls :
           /\ (gpc[c] = "acquire" /\ gpc'[c] # "acquire"
                 /\ Len(Purge(timestamps, clock)) >= rpm)
                => gpc'[c] = "sleep"
           /\ (gpc[c] = "sleep" /\ gpc'[c] # "sleep")
                => clock' >= timestamps[1] + Window
      /\ RollingAdmissions' ]_vars

\* A call was suspended behind rpm admissions and has been admitted since.
C12_Witness ==
  /\ Len(admitted) > rpm
  /\ admitted[rpm + 1] >= admitted[1] + Window
  /\ lock = 0

\* The HTTP requests started inside the window that ends at time t.
StartedWithin(t) ==
  {j \in DOMAIN started : started[j] > t - Window /\ started[j] <= t}

\* C13: every HTTP request to the gateway, retries included, follows an
\* admission of its own by the rate gate, so that no window holds more than rpm
\* request starts.
C13_RequestsRateGated ==
  /\ Len(started) <= Len(admitted)
  /\ \A i \in DOMAIN started : Cardinality(StartedWithin(started[i])) <= rpm

\* ------------------------------------------------------ _validate_summary

\* JSON values as Python holds them: a type tag and a payload. The payload of
\* a number is its digits, that of a list a sequence of values, that of a dict
\* a function from its keys.
JStr(x) == [t |-> "str", v |-> x]
JNum(x) == [t |-> "num", v |-> x]
JList(x) == [t |-> "list", v |-> x]
JDict(x) == [t |-> "dict", v |-> x]
JNone == [t |-> "none", v |-> "None"]
JFalse == [t |-> "bool", v |-> "False"]

\* Python's `not value`
Falsy(val) ==
  CASE val.t = "str" -> val.v = ""
    [] val.t = "num" -> val.v = "0"
    [] val.t = "list" -> val.v = << >>
    [] val.t = "dict" -> DOMAIN val.v = {}
    [] val.t = "bool" -> val.v = "False"
    [] OTHER -> TRUE

\* Python's str(value): a string stays, a number gives its digits, None and
\* booleans their names, and a container its rendering.
Str(val) ==
  CASE val.t = "str" -> val
    [] val.t \in {"num", "none", "bool"} -> JStr(val.v)
    [] val.t = "dict" -> JStr("{...}")
    [] OTHER -> JStr("[...]")

\* summarizer.py 89-99
defaults ==
  [title_zh |-> JStr("unknown"),
   tldr_zh |-> JStr("unknown"),
   contributions_zh |-> JList(<< JStr("unknown") >>),
   method_zh |-> JStr("unknown"),
   experiments_zh |-> JStr("unknown"),
   results_zh |-> JStr("unknown"),
   limitations_zh |-> JStr("unknown"),
   who_should_read_zh |-> JStr("unknown"),
   links |-> JDict([abs |-> "", pdf |-> ""])]

RequiredKeys == DOMAIN defaults

\* summarizer.py 100-102
FillDefaults(data) ==
  [key \in DOMAIN data \cup RequiredKeys |->
     IF key \in RequiredKeys /\ (key \notin DOMAIN data \/ Falsy(data[key]))
     THEN defaults[key]
     ELSE data[key]]

\* summarizer.py 103-104
WrapContributions(data) ==
  IF data["contributions_zh"].t # "list"
  THEN [data EXCEPT !["contributions_zh"] = JList(<< Str(data["contributions_zh"]) >>)]
  ELSE data

\* summarizer.py 105-106
ReplaceLinks(data) ==
  IF data["links"].t # "dict"
  THEN [data EXCEPT !["links"] = defaults["links"]]
  ELSE data

\* As validate_summary, but a field given with an empty value is kept.
validate_summary_KeepEmpty(data) ==
  LET filled == [key \in DOMAIN data \cup RequiredKeys |->
                   IF key \in DOMAIN data THEN data[key] ELSE defaults[key]]
  IN ReplaceLinks(WrapContributions(filled))

\* summarizer.py 87-107
validate_summary(data) == ReplaceLinks(WrapContributions(FillDefaults(data)))

\* The mappings validated: what json.loads can make of a model reply that is
\* an object (summarizer.py 118-119, 127-128), and the minimal summaries
\* (132-140, 171-179). A field takes one of the values below or is missing.
Missing == [t |-> "missing", v |-> ""]

TextValues == {Missing, JStr(""), JStr("t"), JNum("5"), JNone}

ContributionValues ==
  {Missing, JList(<< JStr("c1") >>), JList(<< >>), JStr("single"), JStr(""),
   JNum("5"), JNum("0"), JNone, JFalse, JDict([a |-> "b"])}

LinkValues ==
  {Missing, JDict([abs |-> "u1", pdf |-> "u2"]), JDict(<< >>), JDict([abs |-> "u1"]),
   JStr("not a dict"), JList(<< JStr("u1") >>), JNone}

OtherKeys ==
  {"method_zh", "experiments_zh", "results_zh", "limitations_zh", "who_should_read_zh"}

MakeData(title, tldr, contributions, links, others) ==
  LET all == [key \in RequiredKeys |->
                CASE key = "title_zh" -> title
                  [] key = "tldr_zh" -> tldr
                  [] key = "contributions_zh" -> contributions
                  [] key = "links" -> links
                  [] OTHER -> others]
  IN [key \in {k \in RequiredKeys : all[k] # Missing} |-> all[key]]

ValidateInputs ==
  {MakeData(title, tldr, contributions, links, others) :
     title \in TextValues, tldr \in {Missing, JStr("x")},
     contributions \in ContributionValues, links \in LinkValues,
     others \in {Missing, JStr("m")}}

InitValidate ==
  /\ EmptyStore /\ CtlIdle /\ SumOff /\ GateOff /\ DbOff /\ TimeOff /\ PushOff /\ OneOff /\ ExtractOff /\ RaceOff /\ CrashOff /\ FetchOff /\ pc = "off"
  /\ vpc = "call"
  /\ vdata \in ValidateInputs
  /\ vresult = << >>

\* summarizer.py 87-107
Validate ==
  /\ vpc = "call"
  /\ vresult' = validate_summary(vdata)
  /\ vpc' = "returned"
  /\ UNCHANGED << storeVars, ctlVars, sumVars, fetchVars, crashVars, raceVars, extractVars, oneVars, pushVars, timeVars, gateVars, dbVars, vdata >>

SpecValidate == InitValidate /\ [][Validate]_vars

\* A value of the type the field is meant to hold, and not an empty one.
Valid(key, val) ==
  /\ ~Falsy(val)
  /\ val.t = defaults[key].t

Given(key) == key \in DOMAIN vdata

\* Every required field is there and not empty.
AllFieldsFilled ==
  \A key \in RequiredKeys : key \in DOMAIN vresult /\ ~Falsy(vresult[key])

\* Links that were no mapping have become one with the keys abs and pdf.
LinksReplaced ==
  (Given("links") /\ vdata["links"].t # "dict")
    => /\ vresult["links"].t = "dict"
       /\ {"abs", "pdf"} \subseteq DOMAIN vresult["links"].v

\* A field that was given with a valid value is returned as given.
ValidKept ==
  \A key \in RequiredKeys :
    (Given(key) /\ Valid(key, vdata[key])) => vresult[key] = vdata[key]

\* C14 as stated: contributions_zh given as any scalar comes back as the list
\* of that scalar alone.
C14_ScalarAlwaysWrapped ==
  vpc = "returned"
    => /\ AllFieldsFilled /\ LinksReplaced /\ ValidKept
       /\ (Given("contributions_zh")
             /\ vdata["contributions_zh"].t \notin {"list", "dict"})
            => vresult["contributions_zh"] = JList(<< vdata["contributions_zh"] >>)

\* C14: the result of _validate_summary has every required field, none empty;
\* links that were no mapping are replaced by one with abs and pdf; valid
\* fields are kept; and contributions_zh given as a non-list comes back as a
\* one-element list: of the string itself when it is a non-empty string, of
\* its str() rendering when it is another non-empty value, and as the default
\* list when it is empty.
C14_ValidatedSummary ==
  vpc = "returned"
    => /\ AllFieldsFilled /\ LinksReplaced /\ ValidKept
       /\ (Given("contributions_zh") /\ vdata["contributions_zh"].t # "list")
            => LET given == vdata["contributions_zh"]
               IN vresult["contributions_zh"] =
                    IF Falsy(given) THEN defaults["contributions_zh"]
                    ELSE IF given.t = "str" THEN JList(<< given >>)
                    ELSE JList(<< Str(given) >>)

\* A number given as contributions_zh has been validated.
C14_Witness ==
  /\ vpc = "returned"
  /\ Given("contributions_zh") /\ vdata["contributions_zh"] = JNum("5")
  /\ Given("links") /\ vdata["links"].t = "str"
  /\ ~Given("title_zh")

\* ------------------------------------------------------------ papers table

\* A paper as fetcher.py 77-87 builds it: the identifier, and the other
\* columns, every one a string, standing together as the title. The same
\* identifier can come with other columns (a later version of the paper).
Titles == {"A", "B"}
PaperRecords == [arxiv_id : PaperIds, title : Titles]

\* The longest list passed to upsert_papers.
MaxList == 3

RECURSIVE SeqsUpTo(_, _)
SeqsUpTo(S, n) ==
  IF n = 0 THEN {<< >>}
  ELSE LET shorter == SeqsUpTo(S, n - 1)
       IN shorter \cup {Append(q, x) : q \in shorter, x \in S}

PaperLists == SeqsUpTo(PaperRecords, MaxList)

IdsOf(rows) == {r.arxiv_id : r \in rows}
ListIds(list) == {list[i].arxiv_id : i \in DOMAIN list}

\* INSERT OR REPLACE: a row with the same arxiv_id gives way to the new one.
upsert_paper_Replace(rows, paper) ==
  [rows |-> {r \in rows : r.arxiv_id # paper.arxiv_id} \cup {paper},
   inserted |-> TRUE]

\* db.py 59-80: INSERT OR IGNORE skips the row when its arxiv_id, the primary
\* key (db.py 15), is in the table; rowcount tells whether a row was written.
upsert_paper(rows, paper) ==
  LET conflict == \E r \in rows : r.arxiv_id = paper.arxiv_id
  IN [rows |-> IF conflict THEN rows ELSE rows \cup {paper},
      inserted |-> ~conflict]

\* As UpsertLoop, but every paper of the list is counted.
RECURSIVE UpsertLoop_CountAll(_, _, _)
UpsertLoop_CountAll(rows, list, inserted) ==
  IF list = << >> THEN [rows |-> rows, inserted |-> inserted]
  ELSE UpsertLoop_CountAll(upsert_paper(rows, Head(list)).rows, Tail(list), inserted + 1)

\* db.py 84-88: the loop of upsert_papers
RECURSIVE UpsertLoop(_, _, _)
UpsertLoop(rows, list, inserted) ==
  IF list = << >> THEN [rows |-> rows, inserted |-> inserted]
  ELSE LET one == upsert_paper(rows, Head(list))
       IN UpsertLoop(one.rows, Tail(list),
                     IF one.inserted THEN inserted + 1 ELSE inserted)

\* db.py 59-80
UpsertPaper(paper) ==
  LET one == upsert_paper(paper_rows, paper)
  IN /\ paper_rows' = one.rows
     /\ papers' = IdsOf(one.rows)
     /\ ret' = [NoRet EXCEPT !.op = "upsert_paper", !.paper = paper,
                             !.flag = one.inserted]
     /\ UNCHANGED << summaries, runs, ctlVars, sumVars, fetchVars, crashVars, raceVars, extractVars, oneVars, pushVars, timeVars, gateVars, valVars, marked, saved >>

\* db.py 82-88
UpsertPapers(list) ==
  LET all == UpsertLoop(paper_rows, list, 0)
  IN /\ paper_rows' = all.rows
     /\ papers' = IdsOf(all.rows)
     /\ ret' = [NoRet EXCEPT !.op = "upsert_papers", !.ids = ListIds(list),
                             !.len = Len(list), !.count = all.inserted]
     /\ UNCHANGED << summaries, runs, ctlVars, sumVars, fetchVars, crashVars, raceVars, extractVars, oneVars, pushVars, timeVars, gateVars, valVars, marked, saved >>

\* db.py 47-52: a store on a fresh file
InitPapers ==
  /\ EmptyStore /\ CtlIdle /\ SumOff /\ GateOff /\ ValOff /\ DbOff /\ TimeOff /\ PushOff /\ OneOff /\ ExtractOff /\ RaceOff /\ CrashOff /\ FetchOff /\ pc = "off"

NextPapers ==
  \/ \E paper \in PaperRecords : UpsertPaper(paper)
  \/ \E list \in PaperLists : UpsertPapers(list)

SpecPapers == InitPapers /\ [][NextPapers]_vars

Known(id) == \E r \in paper_rows : r.arxiv_id = id

\* C15: upsert_paper returns True for an identifier the table does not hold
\* and writes the row; for one it holds it returns False and changes nothing.
\* Whatever the operation, no row is removed or altered, and the table holds
\* one row per identifier.
C15_FirstInsertWins ==
  [][ /\ paper_rows \subseteq paper_rows'
      /\ \A r1, r2 \in paper_rows' : r1.arxiv_id = r2.arxiv_id => r1 = r2
      /\ papers' = IdsOf(paper_rows')
      /\ ret'.op = "upsert_paper"
           => LET paper == ret'.paper
              IN /\ ret'.flag = ~Known(paper.arxiv_id)
                 /\ Known(paper.arxiv_id) => paper_rows' = paper_rows
                 /\ ~Known(paper.arxiv_id) => paper \in paper_rows' ]_vars

\* upsert_paper was called with other columns for an identifier in the table,
\* and returned False.
C15_Witness ==
  /\ ret.op = "upsert_paper" /\ ~ret.flag
  /\ ret.paper \notin paper_rows
  /\ Known(ret.paper.arxiv_id)

\* C16: upsert_papers returns the number of distinct identifiers of the list
\* that the table did not hold before the call.
C16_BulkCountsNewIdentifiers ==
  [][ ret'.op = "upsert_papers"
        => ret'.count = Cardinality(ret'.ids \ IdsOf(paper_rows)) ]_vars

\* upsert_papers returned from a list that repeats an identifier and holds
\* both a new identifier and one already in the table.
C16_Witness ==
  /\ ret.op = "upsert_papers"
  /\ ret.len > Cardinality(ret.ids)
  /\ ret.count = 1
  /\ Cardinality(ret.ids) = 2

\* -------------------------------------------------------------- runs table

\* The channel strings passed to mark_sent and was_sent: the channel names,
\* the empty string, and the comma-joined list cmd_send passes when two
\* channels succeeded (cli.py 171).
ChannelStrings ==
  {<< "email" >>, << "qq" >>, << "telegram" >>, << >>, << "email", Comma, "qq" >>}

\* What upsert_run may have left in sent_channels before (cli.py 86: the
\* successful channels joined in push order; db.py 147: "" by default).
PriorSentStrings == {<< >>, << "email" >>, << "qq", Comma, "email" >>}

\* db.py 164-171
MarkSent(d, channel) ==
  /\ runs' = mark_sent(d, channel)
  /\ marked' = marked \cup {channel}
  /\ ret' = [NoRet EXCEPT !.op = "mark_sent", !.date = d, !.channel = channel]
  /\ UNCHANGED << papers, summaries, ctlVars, sumVars, fetchVars, crashVars, raceVars, extractVars, oneVars, pushVars, timeVars, gateVars, valVars, paper_rows, saved >>

\* db.py 158-162
WasSent(d, channel) ==
  /\ ret' = [NoRet EXCEPT !.op = "was_sent", !.date = d, !.channel = channel,
                          !.flag = was_sent(d, channel)]
  /\ UNCHANGED << storeVars, ctlVars, sumVars, fetchVars, crashVars, raceVars, extractVars, oneVars, pushVars, timeVars, gateVars, valVars, paper_rows, marked, saved >>

\* A store in which the run is absent, or was written by upsert_run as cmd_run
\* does: `sent` with the channels that succeeded, any other status with none.
InitRuns ==
  /\ CtlIdle /\ SumOff /\ GateOff /\ ValOff /\ DbOff /\ TimeOff /\ PushOff /\ OneOff /\ ExtractOff /\ RaceOff /\ CrashOff /\ FetchOff /\ pc = "off"
  /\ papers = {} /\ summaries = [id \in PaperIds |-> NoSummary]
  /\ \/ runs = [d \in {} |-> 0]
     \/ \E status \in {"empty", "failed", "rendered", "sent"}, sent \in PriorSentStrings :
          /\ (status = "sent") = (sent # << >>)
          /\ runs = [d \in Dates |-> [status |-> status, sent_channels |-> sent,
                                       created_at |-> now_iso]]

NextRuns ==
  \/ \E d \in Dates, channel \in ChannelStrings : MarkSent(d, channel)
  \/ \E d \in Dates, channel \in ChannelStrings : WasSent(d, channel)

SpecRuns == InitRuns /\ [][NextRuns]_vars

\* A channel name: a string that is not empty and holds no comma.
IsName(s) == s # << >> /\ \A i \in DOMAIN s : s[i] # Comma

\* What a mark_sent call must leave: every channel marked so far reported as
\* sent, the status `sent`, and the record untouched when the channel had been
\* marked before.
MarkedAllSent ==
  \A d \in Dates :
    ret'.date = d
      => /\ \A c \in marked' : was_sent(d, c)'
         /\ StatusOf(d)' = "sent"
         /\ ret'.channel \in marked => runs' = runs

\* C17 as stated: whatever the channel strings marked.
C17_MarkSentAdditive ==
  [][ ret'.op = "mark_sent" => MarkedAllSent ]_vars

\* C17: while the strings marked are channel names (not empty, no comma),
\* every mark_sent call leaves each channel marked so far reported as sent and
\* the status `sent`, and marking a channel again leaves the record as it was.
C17_MarkSentAdditiveOnNames ==
  [][ (ret'.op = "mark_sent" /\ \A c \in marked' : IsName(c)) => MarkedAllSent ]_vars

\* Three channel names have been marked in turn and all three are recorded.
C17_Witness ==
  /\ ret.op = "mark_sent"
  /\ marked = {<< "email" >>, << "qq" >>, << "telegram" >>}
  /\ runs["d1"].sent_channels = << "email", Comma, "qq", Comma, "telegram" >>

\* C19: was_sent(r, c) answers whether c is a member of the sent-channel set
\* recorded for r (the set mark_sent reads at db.py 169; empty when r has no
\* record), for every channel string c.
C19_WasSentIsMembership ==
  ret.op = "was_sent" => ret.flag = (ret.channel \in Recorded(runs, ret.date))

\* The channels push_digest reported as sent in this invocation.
SentNow == SeqToSet(SentChannels(results))

\* C18: the store write that ends a cmd_send in which some channels succeeded
\* leaves each of them, and each channel recorded for the date before,
\* reported as sent; no other step of cmd_send touches the run record.
C18_SendKeepsAndAdds ==
  [][ cmd = "send"
        => /\ (pc = "s_mark" /\ SentNow # {})
                => \A d \in Dates :
                     today = d
                       => \A c \in SentNow \cup Recorded(runs, d) : was_sent(d, c)'
           /\ pc # "s_mark" => runs' = runs ]_vars

\* cmd_send has recorded the channel that succeeded, next to another channel
\* recorded by an earlier invocation.
C18_Witness ==
  /\ cmd = "send" /\ pc = "finally" /\ path = "normal"
  /\ SentNow # {}
  /\ SentNow \subseteq Recorded(runs, today)
  /\ Recorded(runs, today) # SentNow

\* ---------------------------------------------------------- summaries table

\* db.py 125-131
SaveSummary(id, summary) ==
  /\ summaries' = save_summary(id, summary)
  /\ saved' = [saved EXCEPT ![id] = summary]
  /\ ret' = [NoRet EXCEPT !.op = "save_summary", !.id = id, !.summary = summary,
                          !.old = summaries[id]]
  /\ UNCHANGED << papers, runs, ctlVars, sumVars, fetchVars, crashVars, raceVars, extractVars, oneVars, pushVars, timeVars, gateVars, valVars, paper_rows, marked >>

\* db.py 133-139
GetSummary(id) ==
  /\ ret' = [NoRet EXCEPT !.op = "get_summary", !.id = id, !.summary = get_summary(id)]
  /\ UNCHANGED << storeVars, ctlVars, sumVars, fetchVars, crashVars, raceVars, extractVars, oneVars, pushVars, timeVars, gateVars, valVars, paper_rows, marked, saved >>

\* db.py 119-123
HasSummary(id) ==
  /\ ret' = [NoRet EXCEPT !.op = "has_summary", !.id = id, !.flag = has_summary(id)]
  /\ UNCHANGED << storeVars, ctlVars, sumVars, fetchVars, crashVars, raceVars, extractVars, oneVars, pushVars, timeVars, gateVars, valVars, paper_rows, marked, saved >>

\* db.py 47-52: a store on a fresh file
InitSummaries ==
  /\ EmptyStore /\ CtlIdle /\ SumOff /\ GateOff /\ ValOff /\ DbOff /\ TimeOff /\ PushOff /\ OneOff /\ ExtractOff /\ RaceOff /\ CrashOff /\ FetchOff /\ pc = "off"

NextSummaries ==
  \/ \E id \in PaperIds, summary \in SummaryKinds : SaveSummary(id, summary)
  \/ \E id \in PaperIds : GetSummary(id)
  \/ \E id \in PaperIds : HasSummary(id)

SpecSummaries == InitSummaries /\ [][NextSummaries]_vars

\* C20: save_summary(id, s) leaves get_summary(id) = s and has_summary(id)
\* True whether or not id had a summary, and touches no other paper's summary;
\* get_summary returns the summary saved last, or None for an identifier never
\* saved, for which has_summary is False.
C20_LastWriteWins ==
  [][ \A id \in PaperIds :
        /\ (ret'.op = "save_summary" /\ ret'.id = id)
             => /\ get_summary(id)' = ret'.summary
                /\ has_summary(id)'
                /\ \A other \in PaperIds \ {id} : summaries'[other] = summaries[other]
        /\ (ret'.op = "get_summary" /\ ret'.id = id)
             => ret'.summary = saved[id]
        /\ (ret'.op = "has_summary" /\ ret'.id = id)
             => ret'.flag = (saved[id] # NoSummary)
        /\ ret'.op \in {"get_summary", "has_summary"} => summaries' = summaries ]_vars

\* save_summary has replaced another summary of the same paper.
C20_Witness ==
  /\ ret.op = "save_summary"
  /\ ret.old \notin {NoSummary, json_dumps(ret.summary)}
  /\ get_summary(ret.id) = ret.summary

\* ------------------------------------------------- papers without a summary

\* ORDER BY p.published_at DESC (db.py 95): the identifiers number the papers
\* newest first, so the rows come out by rising identifier.
RECURSIVE NewestFirst(_)
NewestFirst(rows) ==
  IF rows = {} THEN << >>
  ELSE LET first == CHOOSE r \in rows : \A o \in rows : r.arxiv_id <= o.arxiv_id
       IN << first >> \o NewestFirst(rows \ {first})

\* As get_papers_without_summary, but without the WHERE clause: every row of
\* the left join.
get_papers_without_summary_All == NewestFirst(paper_rows)

\* db.py 90-97: papers LEFT JOIN summaries on arxiv_id, the rows for which the
\* join found no summary.
get_papers_without_summary ==
  NewestFirst({p \in paper_rows : \A id \in PaperIds :
                                   summaries[id] # NoSummary => p.arxiv_id # id})

\* db.py 90-97
GetPapersWithoutSummary ==
  /\ ret' = [NoRet EXCEPT !.op = "get_papers_without_summary",
                          !.rows = get_papers_without_summary]
  /\ UNCHANGED << storeVars, ctlVars, sumVars, fetchVars, crashVars, raceVars, extractVars, oneVars, pushVars, timeVars, gateVars, valVars, paper_rows, marked, saved >>

\* Any sequence of upsert_paper, save_summary, has_summary and
\* get_papers_without_summary calls on a fresh store.
NextUnsummarized ==
  \/ \E paper \in PaperRecords : UpsertPaper(paper)
  \/ \E id \in PaperIds, summary \in SummaryKinds : SaveSummary(id, summary)
  \/ \E id \in PaperIds : HasSummary(id)
  \/ GetPapersWithoutSummary

SpecUnsummarized == InitPapers /\ [][NextUnsummarized]_vars

\* C21: get_papers_without_summary returns, each once, exactly the stored
\* papers for which has_summary is False, that is those for whose identifier
\* save_summary was never called; and right after save_summary(id) the paper
\* with that identifier is not among them.
C21_UnsummarizedAreThoseWithoutSummary ==
  [][ /\ ret'.op = "get_papers_without_summary"
           => /\ SeqToSet(ret'.rows) = {p \in paper_rows : ~has_summary(p.arxiv_id)}
              /\ SeqToSet(ret'.rows) = {p \in paper_rows : saved[p.arxiv_id] = NoSummary}
              /\ Len(ret'.rows) = Cardinality(SeqToSet(ret'.rows))
      /\ ret'.op = "save_summary"
           => \A i \in DOMAIN get_papers_without_summary' :
                get_papers_without_summary'[i].arxiv_id # ret'.id
      /\ ret'.op = "has_summary"
           => ret'.flag = (saved[ret'.id] # NoSummary) ]_vars

\* Of two stored papers, the one that has a summary was left out.
C21_Witness ==
  /\ ret.op = "get_papers_without_summary"
  /\ Cardinality(paper_rows) = 2
  /\ Len(ret.rows) = 1
  /\ \E p \in paper_rows : has_summary(p.arxiv_id)

\* ------------------------------------------------------------- upsert_run

\* The run dates of two days.
RunDates == {"d1", "d2"}

\* The statuses written by the program (cli.py 66, 86, 97; db.py 167, 171).
RunStatuses == {"empty", "failed", "rendered", "sent"}

\* db.py 147: the default of the parameter sent_channels
DefaultSentChannels == << >>

\* The number of steps of the wall clock that are followed.
MaxNow == 2

\* db.py 147-156, called with all three arguments. `ret` keeps the arguments
\* and, in `old`, the status the run had before ("none" when it was absent).
UpsertRun(d, status, sent_channels) ==
  /\ runs' = upsert_run(d, status, sent_channels)
  /\ ret' = [NoRet EXCEPT !.op = "upsert_run", !.date = d, !.status = status,
                          !.channel = sent_channels,
                          !.old = IF HasRun(d) THEN runs[d].status ELSE "none"]
  /\ UNCHANGED << papers, summaries, ctlVars, sumVars, fetchVars, crashVars, raceVars, extractVars, oneVars, pushVars, timeVars, gateVars, valVars,
                  paper_rows, marked, saved >>

\* db.py 147-156, called without the sent_channels argument (`flag` tells so)
UpsertRunDefault(d, status) ==
  /\ runs' = upsert_run(d, status, DefaultSentChannels)
  /\ ret' = [NoRet EXCEPT !.op = "upsert_run", !.date = d, !.status = status,
                          !.flag = TRUE,
                          !.old = IF HasRun(d) THEN runs[d].status ELSE "none"]
  /\ UNCHANGED << papers, summaries, ctlVars, sumVars, fetchVars, crashVars, raceVars, extractVars, oneVars, pushVars, timeVars, gateVars, valVars,
                  paper_rows, marked, saved >>

\* db.py 42-43: time passes between two calls
Tock ==
  /\ now_iso < MaxNow
  /\ now_iso' = now_iso + 1
  /\ UNCHANGED << storeVars, ctlVars, sumVars, fetchVars, crashVars, raceVars, extractVars, oneVars, pushVars, gateVars, valVars, dbVars >>

NextUpsertRun ==
  \/ \E d \in RunDates, status \in RunStatuses, sent_channels \in PriorSentStrings :
       UpsertRun(d, status, sent_channels)
  \/ \E d \in RunDates, status \in RunStatuses : UpsertRunDefault(d, status)
  \/ Tock

SpecUpsertRun == InitPapers /\ [][NextUpsertRun]_vars

\* C22: upsert_run(r, status, channels) leaves a run r whose status and
\* sent-channel string are the ones given (the empty string when the channels
\* argument is omitted), whatever was stored; the creation time is the time of
\* the call when r was absent and the stored one otherwise; and no other run
\* is added, removed or changed.
C22_UpsertRunReplaces ==
  [][ \A d \in RunDates :
        (ret'.op = "upsert_run" /\ ret'.date = d)
          => /\ DOMAIN runs' = DOMAIN runs \cup {d}
             /\ runs'[d].status = ret'.status
             /\ runs'[d].sent_channels = IF ret'.flag THEN << >> ELSE ret'.channel
             /\ runs'[d].created_at = IF HasRun(d) THEN runs[d].created_at ELSE now_iso
             /\ \A other \in DOMAIN runs \ {d} : runs'[other] = runs[other] ]_vars

\* A run recorded as sent to a channel was written again, later and without
\* the channels argument, while another run stands recorded with its channels.
C22_Witness ==
  /\ ret.op = "upsert_run" /\ ret.flag /\ ret.old = "sent" /\ ret.status = "failed"
  /\ runs[ret.date].sent_channels = << >>
  /\ runs[ret.date].created_at < now_iso
  /\ \E other \in DOMAIN runs : other # ret.date /\ runs[other].sent_channels # << >>

\* ------------------------------------------------------------- push_digest

\* The settings push_digest is followed with: those of the controller, and
\* lists of three channels.
PushSettings ==
  Settings \cup
    { Setting(<< "email", Comma, "telegram", Comma, "qq" >>, TRUE, TRUE),
      Setting(<< "qq", Comma, "email", Comma, "qq" >>, TRUE, TRUE),
      Setting(<< "telegram", Comma, "Email" >>, TRUE, FALSE),
      Setting(<< "qq", Comma, "email", Comma, "telegram" >>, FALSE, TRUE),
      Setting(<< "email", Comma, "qq", Comma, "email" >>, TRUE, FALSE) }

\* What a call of push_digest leaves alone.
pushFrame ==
  << storeVars, sumVars, fetchVars, crashVars, raceVars, extractVars, oneVars, gateVars, valVars, dbVars, timeVars, cmd, today, cfg, fetched,
     outcome, invoked, path, dbOpen, closeCount, lateOps >>

\* push/__init__.py 23-29: no channel configured, the empty mapping is returned
PushStart ==
  /\ pc = "p_start"
  /\ pc' = IF push_channels(cfg) = << >> THEN "p_returned" ELSE "p_loop"
  /\ UNCHANGED << pushFrame, results, thrown, pushVars >>

\* As PushChannel, but without the handler at 70-72: an exception of the send
\* call leaves push_digest.
PushChannel_NoCatch ==
  /\ pc = "p_loop" /\ pidx < Len(push_channels(cfg))
  /\ LET channel == push_channels(cfg)[pidx + 1]
         ch == Lower(channel)
     IN \E sendOk \in BOOLEAN :
          /\ attempts' = Append(attempts, [channel |-> ch,
                                           ended |-> TryOne(cfg, ch, sendOk)])
          /\ pidx' = pidx + 1
          /\ IF TryOne(cfg, ch, sendOk) = "raise"
             THEN thrown' = "PushError" /\ pc' = "p_raised" /\ results' = results
             ELSE thrown' = thrown /\ pc' = pc
                  /\ results' = PushOne(cfg, channel, sendOk, results)
  /\ UNCHANGED pushFrame

\* push/__init__.py 31-72: the loop handles the next configured channel
PushChannel ==
  /\ pc = "p_loop" /\ pidx < Len(push_channels(cfg))
  /\ LET channel == push_channels(cfg)[pidx + 1]
         ch == Lower(channel)
     IN \E sendOk \in BOOLEAN :
          /\ attempts' = Append(attempts, [channel |-> ch,
                                           ended |-> TryOne(cfg, ch, sendOk)])
          /\ results' = PushOne(cfg, channel, sendOk, results)
  /\ pidx' = pidx + 1
  /\ UNCHANGED << pushFrame, pc, thrown >>

\* push/__init__.py 74
PushReturn ==
  /\ pc = "p_loop" /\ pidx = Len(push_channels(cfg))
  /\ pc' = "p_returned"
  /\ UNCHANGED << pushFrame, results, thrown, pushVars >>

\* push_digest called with any of the settings (cli.py 84, 168)
InitPush ==
  /\ EmptyStore /\ SumOff /\ GateOff /\ ValOff /\ DbOff /\ TimeOff /\ PushOff /\ OneOff /\ ExtractOff /\ RaceOff /\ CrashOff /\ FetchOff
  /\ cmd = "none" /\ today = "d1" /\ cfg \in PushSettings
  /\ fetched = << >> /\ results = << >> /\ thrown = "none" /\ outcome = "none"
  /\ invoked = {} /\ path = "none"
  /\ dbOpen = FALSE /\ closeCount = 0 /\ lateOps = FALSE
  /\ pc = "p_start"

NextPush == PushStart \/ PushChannel \/ PushReturn

SpecPush == InitPush /\ [][NextPush]_vars

\* The handling of the channel `ch` that came last.
LastAttempt(ch) ==
  LET k == CHOOSE i \in DOMAIN attempts :
             /\ attempts[i].channel = ch
             /\ \A j \in DOMAIN attempts : attempts[j].channel = ch => j <= i
  IN attempts[k]

\* C23: no exception leaves push_digest; when it returns, every configured
\* channel has been handled, whatever became of the channels before it, and
\* the mapping holds, under the lower-case name of every configured channel,
\* True when the send call of that channel (the last one, for a name
\* configured twice) completed without error and False when it raised or the
\* channel is not configured or not known.
C23_PushNeverRaises ==
  /\ thrown = "none"
  /\ pc # "p_raised"
  /\ Len(attempts) = pidx
  /\ pc = "p_returned"
       => /\ pidx = Len(push_channels(cfg))
          /\ \A i \in DOMAIN attempts :
               attempts[i].channel = Lower(push_channels(cfg)[i])
          /\ {results[j].key : j \in DOMAIN results}
               = {Lower(push_channels(cfg)[i]) : i \in DOMAIN push_channels(cfg)}
          /\ \A j \in DOMAIN results :
               results[j].ok = (LastAttempt(results[j].key).ended = "true")

\* The send of the first channel raised, the second channel is not known, and
\* the third was sent all the same.
C23_Witness ==
  /\ pc = "p_returned" /\ Len(attempts) = 3
  /\ attempts[1].ended = "raise" /\ attempts[2].ended = "false"
  /\ attempts[3].ended = "true"
  /\ \E j \in DOMAIN results : results[j].ok
  /\ \E j \in DOMAIN results : results[j].key = << "email" >> /\ ~results[j].ok

\* --------------------------------------------- one task, with its contents

\* The papers a task is given: fetcher.py 44, 71-74 can leave the title empty
\* and never leaves a URL empty.
TaskPapers ==
  {[arxiv_id |-> 1, title |-> t, abs_url |-> "abs/1", pdf_url |-> "pdf/1"] :
     t \in {"Paper title", ""}}

\* The JSON objects a model reply can parse to: with or without a title and
\* contributions, and with every kind of links.
ReplyObjects ==
  {MakeData(title, Missing, contributions, links, Missing) :
     title \in {Missing, JStr("t")}, contributions \in {Missing, JStr("single")},
     links \in LinkValues}

NoData == << >>

\* What a chat or chat_json call can come to: the kinds of ModelReplies, a
\* reply that parses to an object carrying that object.
TaskReplies ==
  [kind : ModelReplies \ {"text_dict"}, data : {NoData}]
    \cup [kind : {"text_dict"}, data : ReplyObjects]

NoReply == [kind |-> "none", data |-> NoData]

\* summarizer.py 66-76: the prompt made of the paper
SummarizePrompt == [prompt |-> "summarize", broken_text |-> NoReply]

\* summarizer.py 79-84: the prompt that carries a reply text to be fixed
RepairPrompt(raw) == [prompt |-> "repair", broken_text |-> raw]

\* As MinimalInput, but without the title.
MinimalInput_NoTitle(paper) ==
  [links |-> JDict([abs |-> paper.abs_url, pdf |-> paper.pdf_url])]

\* summarizer.py 133-139 and 172-178: the mapping of the minimal summary
MinimalInput(paper) ==
  [title_zh |-> JStr(paper.title),
   links |-> JDict([abs |-> paper.abs_url, pdf |-> paper.pdf_url])]

\* dict[key] = value
Put(f, key, value) == [x \in DOMAIN f \cup {key} |-> IF x = key THEN value ELSE f[x]]

\* As SetLinks, but a URL the summary carries is kept.
SetLinks_KeepGiven(summary, paper) ==
  LET links == summary["links"].v
      abs == IF "abs" \in DOMAIN links THEN links["abs"] ELSE paper.abs_url
      pdf == IF "pdf" \in DOMAIN links THEN links["pdf"] ELSE paper.pdf_url
  IN [summary EXCEPT !["links"] = JDict(Put(Put(links, "abs", abs), "pdf", pdf))]

\* summarizer.py 164-166: the links of the summary are set to the paper's URLs
SetLinks(summary, paper) ==
  LET links == IF "links" \in DOMAIN summary THEN summary["links"].v ELSE << >>
  IN Put(summary, "links",
         JDict(Put(Put(links, "abs", paper.abs_url), "pdf", paper.pdf_url)))

\* summarizer.py 163-180 on the summary summarize_one returned: the links are
\* set and the summary saved; when the save raises, the handler makes the
\* minimal summary and nothing is saved.
OneSave(summary, saveOk) ==
  LET linked == SetLinks(summary, opaper) IN
  IF saveOk
  THEN /\ osummary' = linked
       /\ osaved' = Append(osaved, linked)
       /\ opc' = "done"
  ELSE /\ osummary' = validate_summary(MinimalInput(opaper))
       /\ osaved' = osaved
       /\ opc' = "failed"

\* summarizer.py 169-180: an exception left summarize_one
OneFailed ==
  /\ osummary' = validate_summary(MinimalInput(opaper))
  /\ osaved' = osaved
  /\ opc' = "failed"

\* What a step of the task leaves alone.
oneFrame ==
  << storeVars, ctlVars, sumVars, fetchVars, crashVars, raceVars, extractVars, gateVars, valVars, dbVars, timeVars, pushVars, opaper >>

\* summarizer.py 115-121: chat_json on the paper's prompt returns. A
\* ValueError leads to the repair; any other exception, the TypeError of
\* _validate_summary on JSON that is no object included, leaves summarize_one.
OneFirst ==
  /\ opc = "first"
  /\ \E reply \in TaskReplies, saveOk \in BOOLEAN :
       /\ requests' = Append(requests, SummarizePrompt)
       /\ replies' = Append(replies, reply)
       /\ CASE reply.kind = "text_dict" -> OneSave(validate_summary(reply.data), saveOk)
            [] reply.kind \in {"valueerror", "text_bad"} ->
                 opc' = "raw" /\ UNCHANGED << osummary, osaved >>
            [] OTHER -> OneFailed
  /\ UNCHANGED oneFrame

\* summarizer.py 125: the repair begins with chat on the paper's prompt again;
\* its reply text is `raw`. An exception is caught at 129.
OneRaw ==
  /\ opc = "raw"
  /\ \E reply \in TaskReplies, saveOk \in BOOLEAN :
       /\ requests' = Append(requests, SummarizePrompt)
       /\ replies' = Append(replies, reply)
       /\ IF reply.kind \in {"error", "valueerror"}
          THEN OneSave(validate_summary(MinimalInput(opaper)), saveOk)
          ELSE opc' = "fix" /\ UNCHANGED << osummary, osaved >>
  /\ UNCHANGED oneFrame

\* summarizer.py 126-140: chat_json on the repair prompt made of `raw` returns
OneFix ==
  /\ opc = "fix"
  /\ \E reply \in TaskReplies, saveOk \in BOOLEAN :
       /\ requests' = Append(requests, RepairPrompt(replies[Len(replies)]))
       /\ replies' = Append(replies, reply)
       /\ IF reply.kind = "text_dict"
          THEN OneSave(validate_summary(reply.data), saveOk)
          ELSE OneSave(validate_summary(MinimalInput(opaper)), saveOk)
  /\ UNCHANGED oneFrame

\* summarizer.py 159-162: a task starts on a paper that has no summary
InitTask ==
  /\ EmptyStore /\ CtlIdle /\ SumOff /\ GateOff /\ ValOff /\ DbOff /\ TimeOff /\ PushOff
  /\ ExtractOff /\ RaceOff /\ CrashOff /\ FetchOff /\ pc = "off"
  /\ opc = "first" /\ opaper \in TaskPapers
  /\ requests = << >> /\ replies = << >> /\ osummary = << >> /\ osaved = << >>

NextTask == OneFirst \/ OneRaw \/ OneFix

SpecTask == InitTask /\ [][NextTask]_vars

\* The first reply could not be parsed (chat_json raised ValueError).
FirstUnparsed == replies # << >> /\ replies[1].kind \in {"valueerror", "text_bad"}

Ended == opc \in {"done", "failed"}

RepairRequests == {k \in DOMAIN requests : requests[k].prompt = "repair"}

\* C26: a task makes at most two model calls, and when its first reply could
\* not be parsed it ends having made exactly one repair request, whose prompt
\* carries that first reply.
C26_OneRepairOfFirstReply ==
  /\ Len(requests) <= 2
  /\ \A k \in RepairRequests : requests[k].broken_text = replies[1]
  /\ (FirstUnparsed /\ Ended) => Cardinality(RepairRequests) = 1

\* The repair path failed: the second call raised, or the reply to the repair
\* request was no JSON object.
RepairFailed ==
  /\ FirstUnparsed /\ Len(replies) >= 2
  /\ \/ replies[2].kind \in {"error", "valueerror"}
     \/ Len(replies) = 3 /\ replies[3].kind # "text_dict"

\* The summary has the paper's URLs as links, the given title, and the default
\* in every other required field.
MinimalWith(summary, title) ==
  /\ DOMAIN summary = RequiredKeys
  /\ summary["title_zh"] = JStr(title)
  /\ summary["links"] = JDict([abs |-> opaper.abs_url, pdf |-> opaper.pdf_url])
  /\ \A key \in RequiredKeys \ {"title_zh", "links"} : summary[key] = defaults[key]

\* The task's summary is returned, and saved unless the store write failed.
ReturnedAndSaved ==
  /\ opc = "done" => osaved = << osummary >>
  /\ opc = "failed" => osaved = << >>

\* C27 as stated: the title of the minimal summary is the paper's title,
\* whatever that title is.
C27_MinimalKeepsTitle ==
  (RepairFailed /\ Ended)
    => MinimalWith(osummary, opaper.title) /\ ReturnedAndSaved

\* C27: when the first reply cannot be parsed and the repair path fails, the
\* task ends with the minimal summary: the paper's title (`unknown` when the
\* paper's title is empty), the paper's URLs as links, the default in every
\* other required field; and that summary is the one saved, unless the store
\* write itself failed.
C27_MinimalSummary ==
  (RepairFailed /\ Ended)
    => /\ MinimalWith(osummary, IF opaper.title = "" THEN "unknown" ELSE opaper.title)
       /\ ReturnedAndSaved

\* The reply to the repair request could not be parsed either, and the
\* minimal summary of a paper with a title has been saved.
C27_Witness ==
  /\ RepairFailed /\ opc = "done"
  /\ Len(replies) = 3 /\ replies[3].kind = "text_bad"
  /\ opaper.title # ""
  /\ osaved = << osummary >>

\* C28: every summary a task saves has a mapping as links whose abs and pdf
\* are the paper's abs_url and pdf_url, whatever the model returned as links.
C28_SavedLinksAreThePapers ==
  \A i \in DOMAIN osaved :
    /\ osaved[i]["links"].t = "dict"
    /\ {"abs", "pdf"} \subseteq DOMAIN osaved[i]["links"].v
    /\ osaved[i]["links"].v["abs"] = opaper.abs_url
    /\ osaved[i]["links"].v["pdf"] = opaper.pdf_url

\* The model returned links with another abs URL and no pdf URL, and the
\* summary was saved.
C28_Witness ==
  /\ opc = "done" /\ osaved # << >>
  /\ replies[1].kind = "text_dict"
  /\ "links" \in DOMAIN replies[1].data
  /\ replies[1].data["links"] = JDict([abs |-> "u1"])
  /\ osaved[1]["title_zh"] = JStr("t")


\* ---------------------------------------------------------------------------
\* _post under its retry policy (llm.py 62-75)
\* ---------------------------------------------------------------------------

\* The call takes a step.
Moved(c) == gpc'[c] # gpc[c]

\* C30: one call of _post sends at most stop_after_attempt (3) HTTP requests,
\* numbered one after the other; the first request that succeeds ends the call
\* by returning, and nothing is sent afterwards; a request that fails before
\* the last attempt is followed by a wait, and the failure of the last attempt
\* leaves _post as an exception: _post never returns on a failed request.
C30_PostRetriesThenRaises ==
  [][\A c \in Calls :
       /\ (Moved(c) /\ gpc'[c] = "post")
            => attempt'[c] = attempt[c] + 1 /\ attempt'[c] <= stop_after_attempt
       /\ (Moved(c) /\ gpc[c] = "post") =>
            \/ response'[c] = "ok" /\ gpc'[c] = "returned"
            \/ response'[c] = "error" /\ attempt[c] < stop_after_attempt /\ gpc'[c] = "wait"
            \/ response'[c] = "error" /\ attempt[c] = stop_after_attempt /\ gpc'[c] = "raised"
       /\ gpc[c] \in {"returned", "raised"}
            => gpc'[c] = gpc[c] /\ response'[c] = response[c]]_vars

\* One call returned on a request that succeeded, and another raised when its
\* third request failed.
C30_Witness ==
  \E a, b \in Calls :
    /\ gpc[a] = "returned" /\ response[a] = "ok"
    /\ gpc[b] = "raised" /\ response[b] = "error"
    /\ Len(started) >= 1 + stop_after_attempt


\* ---------------------------------------------------------------------------
\* _extract_json (llm.py 124-152)
\* ---------------------------------------------------------------------------

\* A reply is a sequence of these pieces of text: the braces and brackets, a
\* member name with its colon ("k"), a number ("1"), a value nested deeper
\* than the decoder can follow ("deep"), a word of prose or a language tag
\* ("w"), a line break ("nl") and a markdown fence ("fence", three backquotes).
Brace == "{"
Unbrace == "}"
Newline == "nl"
Fence == "fence"
JsonPieces == {Brace, Unbrace, "[", "]", "k", "1", "deep"}

\* The longest run of JSON pieces in a reply.
MaxText == 4

\* What stands before and after that run in a reply.
Before ==
  { << >>, << "w", Newline >>, << Newline >>, << "[" >>, << Unbrace >>,
    << Fence, Newline >>, << Fence, "w", Newline >> }
After ==
  { << >>, << Newline, "w" >>, << Newline >>, << "]" >>, << Brace >>,
    << Newline, Fence >>, << Newline, Fence, Newline, "w" >> }

\* str.strip(): white space at both ends is dropped.
RECURSIVE strip(_)
strip(t) ==
  IF t = << >> THEN t
  ELSE IF Head(t) = Newline THEN strip(Tail(t))
  ELSE IF t[Len(t)] = Newline THEN strip(SubSeq(t, 1, Len(t) - 1))
  ELSE t

\* str.split("\n")
RECURSIVE split_lines(_)
split_lines(t) ==
  IF \A i \in DOMAIN t : t[i] # Newline THEN << t >>
  ELSE LET i == CHOOSE k \in DOMAIN t :
                  t[k] = Newline /\ \A j \in 1..(k - 1) : t[j] # Newline
       IN << SubSeq(t, 1, i - 1) >> \o split_lines(SubSeq(t, i + 1, Len(t)))

\* "\n".join(lines)
RECURSIVE join_lines(_)
join_lines(l) ==
  IF l = << >> THEN << >>
  ELSE IF Len(l) = 1 THEN l[1]
  ELSE l[1] \o << Newline >> \o join_lines(Tail(l))

\* str.find and str.rfind of one character: 0 stands for -1.
find(t, ch) ==
  IF \E i \in DOMAIN t : t[i] = ch
  THEN CHOOSE i \in DOMAIN t : t[i] = ch /\ \A j \in 1..(i - 1) : t[j] # ch
  ELSE 0
rfind(t, ch) ==
  IF \E i \in DOMAIN t : t[i] = ch
  THEN CHOOSE i \in DOMAIN t : t[i] = ch /\ \A j \in (i + 1)..Len(t) : t[j] # ch
  ELSE 0

\* The JSON decoder reading one value from position i, left to right: it ends
\* with the position after the value ("ok"), with json.JSONDecodeError at the
\* first piece that cannot follow, or with RecursionError inside a value nested
\* too deep.
RECURSIVE scan(_, _)
scan(t, i) ==
  LET bad == [r |-> "JSONDecodeError", end |-> i]
      is(j, ch) == j <= Len(t) /\ t[j] = ch
      closed(v, ch) ==
        IF v.r # "ok" THEN v
        ELSE IF is(v.end, ch) THEN [r |-> "ok", end |-> v.end + 1]
        ELSE [r |-> "JSONDecodeError", end |-> v.end]
  IN IF is(i, "1") THEN [r |-> "ok", end |-> i + 1]
     ELSE IF is(i, "deep") THEN [r |-> "RecursionError", end |-> i]
     ELSE IF is(i, "[")
     THEN IF is(i + 1, "]") THEN [r |-> "ok", end |-> i + 2]
          ELSE closed(scan(t, i + 1), "]")
     ELSE IF is(i, Brace)
     THEN IF is(i + 1, Unbrace) THEN [r |-> "ok", end |-> i + 2]
          ELSE IF is(i + 1, "k") THEN closed(scan(t, i + 2), Unbrace)
          ELSE bad
     ELSE bad

\* json.loads: the value is written as its text without white space.
loads(t) ==
  LET doc == SelectSeq(t, LAMBDA x : x # Newline)
      v == scan(doc, 1)
  IN IF v.r # "ok" THEN [kind |-> "raise", error |-> v.r, value |-> << >>]
     ELSE IF v.end # Len(doc) + 1
     THEN [kind |-> "raise", error |-> "JSONDecodeError", value |-> << >>]
     ELSE [kind |-> "return", error |-> "none", value |-> doc]

\* llm.py 127-135: a reply that starts with a fence loses its first line, and
\* its last line when that is a fence alone.
Unfenced(t0) ==
  LET t == strip(t0)
  IN IF t # << >> /\ Head(t) = Fence
     THEN LET lines == Tail(split_lines(t))
              kept == IF lines # << >> /\ strip(lines[Len(lines)]) = << Fence >>
                      THEN SubSeq(lines, 1, Len(lines) - 1) ELSE lines
          IN strip(join_lines(kept))
     ELSE t

\* llm.py 124-152. JSONDecodeError is the only exception caught (140, 149).
ValueError(e) == [kind |-> "raise", error |-> e, value |-> << >>]
extract_json(t0) ==
  LET t == Unfenced(t0)
      direct == loads(t)
      start == find(t, Brace)
      end == rfind(t, Unbrace)
      inner == loads(SubSeq(t, start, end))
  IN IF direct.kind = "return" \/ direct.error # "JSONDecodeError" THEN direct
     ELSE IF start # 0 /\ end # 0 /\ end > start
          THEN IF inner.kind = "return" \/ inner.error # "JSONDecodeError" THEN inner
               ELSE ValueError("ValueError")
          ELSE ValueError("ValueError")

ExtractJson ==
  /\ epc = "call"
  /\ extracted' = extract_json(text)
  /\ epc' = "done"
  /\ UNCHANGED << storeVars, ctlVars, sumVars, fetchVars, crashVars, raceVars, gateVars, valVars, dbVars, timeVars,
                  pushVars, oneVars, text >>

InitExtract ==
  /\ EmptyStore /\ CtlIdle /\ SumOff /\ GateOff /\ ValOff /\ DbOff /\ TimeOff /\ PushOff
  /\ OneOff /\ RaceOff /\ CrashOff /\ FetchOff /\ pc = "off"
  /\ epc = "call" /\ extracted = << >>
  /\ \E b \in Before, m \in SeqsUpTo(JsonPieces, MaxText), a \in After : text = b \o m \o a

NextExtract == ExtractJson

SpecExtract == InitExtract /\ [][NextExtract]_vars

\* The text of a JSON object.
IsObject(o) == o # << >> /\ Head(o) = Brace /\ loads(o).kind = "return"

\* The object o stands in the reply t between a fence line, with or without a
\* language tag, and a closing fence line.
Fenced(t, o) ==
  \E tag \in {<< >>, << "w" >>} : t = << Fence >> \o tag \o << Newline >> \o o \o << Newline, Fence >>

\* The object o stands in the reply t, bare or after text that holds no opening
\* brace and before text that holds no closing brace.
Surrounded(t, o) ==
  \E i, j \in DOMAIN t :
    /\ i <= j /\ SubSeq(t, i, j) = o
    /\ \A a \in 1..(i - 1) : t[a] # Brace
    /\ \A b \in (j + 1)..Len(t) : t[b] # Unbrace

\* The objects that can stand in a reply.
ObjectsIn(t) == {o \in {SubSeq(t, i, j) : i, j \in DOMAIN t} : IsObject(o)}

\* C31: when the reply is a JSON object given bare, inside a markdown fence
\* (with or without a language tag) or between text before its opening brace
\* and after its closing brace, _extract_json returns that object; and
\* whenever it raises, it raises ValueError and nothing else.
C31_ExtractJson ==
  epc = "done" =>
    /\ \A o \in ObjectsIn(text) :
         (Fenced(text, o) \/ Surrounded(text, o))
           => extracted.kind = "return" /\ extracted.value = o
    /\ extracted.kind = "raise" => extracted.error \in {"ValueError", "JSONDecodeError"}


\* ---------------------------------------------------------------------------
\* two processes in mark_sent (db.py 143-171)
\* ---------------------------------------------------------------------------

Procs == {1, 2}
RaceDate == "d1"

\* get_run returned None.
NoRun == [status |-> "none", sent_channels |-> << >>, created_at |-> 0]

\* The channels the two processes mark: two different channel names.
RaceChannels == {<< "email" >>, << "qq" >>, << "telegram" >>}

\* db.py 143-145, 165: SELECT on the process's own connection; no transaction
\* is open, so the row is the one committed last.
RaceGetRun(p) ==
  /\ mpc[p] = "get_run"
  /\ mrun' = [mrun EXCEPT ![p] = IF HasRun(RaceDate) THEN runs[RaceDate] ELSE NoRun]
  /\ mpc' = [mpc EXCEPT ![p] = "upsert_run"]
  /\ UNCHANGED << storeVars, ctlVars, sumVars, fetchVars, crashVars, gateVars, valVars, dbVars, timeVars,
                  pushVars, oneVars, extractVars, mchannel, mwriters >>

\* db.py 166-171 from the row read before.
WriteOf(run, channel) ==
  IF run = NoRun THEN channel
  ELSE LET existing == {c \in SeqToSet(Split(run.sent_channels)) : c # << >>}
       IN Join(Sorted(existing \cup {channel}))

\* As RaceUpsertRun, but the row is read again in the transaction that writes.
RaceUpsertRun_Reread(p) ==
  /\ mpc[p] = "upsert_run"
  /\ runs' = mark_sent(RaceDate, mchannel[p])
  /\ mpc' = [mpc EXCEPT ![p] = "done"]
  /\ mwriters' = Append(mwriters, p)
  /\ UNCHANGED << papers, summaries, ctlVars, sumVars, fetchVars, crashVars, gateVars, valVars, dbVars,
                  timeVars, pushVars, oneVars, extractVars, mchannel, mrun >>

\* db.py 166-171, 147-156: the set is computed from the local `run` and written
\* and committed by upsert_run.
RaceUpsertRun(p) ==
  /\ mpc[p] = "upsert_run"
  /\ runs' = upsert_run(RaceDate, "sent", WriteOf(mrun[p], mchannel[p]))
  /\ mpc' = [mpc EXCEPT ![p] = "done"]
  /\ mwriters' = Append(mwriters, p)
  /\ UNCHANGED << papers, summaries, ctlVars, sumVars, fetchVars, crashVars, gateVars, valVars, dbVars,
                  timeVars, pushVars, oneVars, extractVars, mchannel, mrun >>

\* The run is absent or as cmd_run or mark_sent left it, and each process is
\* about to call mark_sent with a channel of its own.
InitRace ==
  /\ CtlIdle /\ SumOff /\ GateOff /\ ValOff /\ DbOff /\ TimeOff /\ PushOff /\ OneOff
  /\ ExtractOff /\ CrashOff /\ FetchOff /\ pc = "off"
  /\ papers = {} /\ summaries = [id \in PaperIds |-> NoSummary]
  /\ \/ runs = [d \in {} |-> 0]
     \/ \E status \in {"empty", "failed", "rendered", "sent"}, sent \in PriorSentStrings :
          /\ (status = "sent") = (sent # << >>)
          /\ runs = [d \in Dates |-> [status |-> status, sent_channels |-> sent,
                                       created_at |-> now_iso]]
  /\ mpc = [p \in Procs |-> "get_run"]
  /\ mchannel \in {f \in [Procs -> RaceChannels] : f[1] # f[2]}
  /\ mrun = [p \in Procs |-> NoRun]
  /\ mwriters = << >>

NextRace == \E p \in Procs : RaceGetRun(p) \/ RaceUpsertRun(p)

SpecRace == InitRace /\ [][NextRace]_vars

\* Process p commits its write in this step.
Writes(p) == mpc[p] = "upsert_run" /\ mpc'[p] = "done"

\* The channels of a row as mark_sent reads them.
ChannelsOf(run) ==
  IF run = NoRun THEN {} ELSE {c \in SeqToSet(Split(run.sent_channels)) : c # << >>}

\* C32: mark_sent reads the row and writes it back in two steps: what a
\* process writes is the channel set it read plus its own channel, whatever
\* another process committed in between; so when both processes read before
\* either writes, the record holds the last writer's set alone and the first
\* writer's channel is lost.
C32_MarkSentWritesWhatItRead ==
  [][\A p \in Procs :
       Writes(p) => Recorded(runs', RaceDate) = ChannelsOf(mrun[p]) \cup {mchannel[p]}]_vars

\* Both processes have returned from mark_sent and the channel of the one that
\* committed first is not in the record.
C32_Witness ==
  /\ Len(mwriters) = 2
  /\ \A p \in Procs : mpc[p] = "done"
  /\ mchannel[mwriters[1]] \notin Recorded(runs, RaceDate)
  /\ Recorded(runs, RaceDate) = ChannelsOf(mrun[mwriters[2]]) \cup {mchannel[mwriters[2]]}


\* ---------------------------------------------------------------------------
\* cmd_run killed after the push (cli.py 84-86)
\* ---------------------------------------------------------------------------

\* As Crash, but the rows the invocation wrote go with it, as if the whole
\* invocation had been one transaction.
Crash_Rollback ==
  /\ pc = "r_record" /\ cmd = "run"
  /\ SentChannels(results) # << >>
  /\ killed' = killed \cup SeqToSet(SentChannels(results))
  /\ papers' = papers \ SeqToSet(fetched)
  /\ summaries' = [id \in PaperIds |->
                     IF id \in SeqToSet(fetched) THEN NoSummary ELSE summaries[id]]
  /\ pc' = "idle" /\ path' = "crash" /\ outcome' = "killed" /\ dbOpen' = FALSE
  /\ UNCHANGED << runs, sumVars, fetchVars, gateVars, valVars, dbVars, timeVars, pushVars, oneVars,
                  extractVars, raceVars, cmd, today, cfg, fetched, results, thrown,
                  invoked, closeCount, lateOps >>

\* The process dies after push_digest returned with a channel that succeeded
\* and before upsert_run at cli.py 86: no handler and no finally block runs,
\* and the store keeps what was committed (db.py 78, 131, 156).
Crash ==
  /\ pc = "r_record" /\ cmd = "run"
  /\ SentChannels(results) # << >>
  /\ killed' = killed \cup SeqToSet(SentChannels(results))
  /\ pc' = "idle" /\ path' = "crash" /\ outcome' = "killed" /\ dbOpen' = FALSE
  /\ UNCHANGED << storeVars, sumVars, fetchVars, gateVars, valVars, dbVars, timeVars, pushVars, oneVars,
                  extractVars, raceVars, cmd, today, cfg, fetched, results, thrown,
                  invoked, closeCount, lateOps >>

NextCrash == NextRun \/ Crash

SpecCrash == Init /\ [][NextCrash]_vars

\* The invocation is killed in this step.
Dies == path # "crash" /\ path' = "crash"

\* C33 as stated: after a crash between the push and the store write the
\* papers and summaries written stay, the run is not recorded as sent, and
\* the next cmd_run for the date is not skipped.
C33_CrashLeavesRunUnsent ==
  [][Dies =>
       /\ papers' = papers /\ summaries' = summaries
       /\ SeqToSet(fetched) \subseteq papers'
       /\ ~(HasRun(today) /\ runs'[today].status = "sent")
       /\ ~AlreadyCompleted(today, cfg)]_vars

\* C33: after a crash between the push and the store write the papers and
\* summaries written stay and the run record is what it was before the push,
\* without the channels that just succeeded unless an earlier invocation had
\* recorded them; the run is not complete for the settings, so the next
\* cmd_run for the date with these settings is not skipped and pushes again.
C33_CrashKeepsStoreAndRepeats ==
  [][Dies =>
       /\ papers' = papers /\ summaries' = summaries /\ runs' = runs
       /\ SeqToSet(fetched) \subseteq papers'
       /\ ~AlreadyCompleted(today, cfg)]_vars

\* An invocation was killed after a channel had delivered the digest, and the
\* next one has pushed to that channel again with success.
C33_Witness ==
  /\ pc = "r_record" /\ cmd = "run"
  /\ killed \cap SeqToSet(SentChannels(results)) # {}


\* ---------------------------------------------------------------------------
\* the reference from summaries to papers (db.py 27-31, 46-52)
\* ---------------------------------------------------------------------------

\* C34: after any sequence of store operations every stored summary belongs
\* to a stored paper.
C34_SummariesHavePapers ==
  \A id \in PaperIds : has_summary(id) => id \in papers


\* ---------------------------------------------------------------------------
\* what the run record holds (cli.py 83-86, 168-172)
\* ---------------------------------------------------------------------------

\* The channels push_digest reported as failed, not configured or unknown in
\* this invocation.
FailedNow == {results[i].key : i \in {k \in DOMAIN results : ~results[k].ok}}

\* The channels push_digest reported success for in this invocation.
OkNow == {results[i].key : i \in {k \in DOMAIN results : results[k].ok}}

\* C35: a channel enters the sent-channel set of a date only in a step of a
\* cmd_run or cmd_send invocation for that date whose push reported success
\* for that channel; a channel reported as failed, not configured or unknown
\* is not added.
C35_RecordedOnlyIfPushed ==
  [][\A d \in Dates :
       Recorded(runs', d) \subseteq
         Recorded(runs, d) \cup (IF d = today THEN OkNow ELSE {})]_vars

\* An invocation recorded the channels that succeeded and left out one that
\* did not.
C35_Witness ==
  /\ pc = "finally" /\ path = "normal"
  /\ OkNow # {} /\ OkNow \subseteq Recorded(runs, today)
  /\ \E ch \in FailedNow : ch \notin Recorded(runs, today)


\* The statuses a run record can carry (cli.py 66, 86, 97; db.py 167, 171).
RunStatusValues == {"empty", "rendered", "sent", "failed"}

\* C36: in every state reached by cmd_run and cmd_send invocations each run
\* record has one of the four statuses, and its status is `sent` exactly when
\* its recorded sent-channel set is not empty.
C36_SentIffChannels ==
  \A d \in DOMAIN runs :
    /\ runs[d].status \in RunStatusValues
    /\ (runs[d].status = "sent") = (Recorded(runs, d) # {})

\* A cmd_send invocation has marked a run as sent, with two channels in its
\* record.
C36_Witness ==
  /\ cmd = "send" /\ pc = "finally" /\ path = "normal"
  /\ HasRun(today) /\ runs[today].status = "sent"
  /\ Cardinality(Recorded(runs, today)) >= 2

\* ---------------------------------------------------------------------------
\* the idempotency check and the spelling of channel names (cli.py 52-59)
\* ---------------------------------------------------------------------------

\* A cmd_run invocation has returned after a push in which every configured
\* channel succeeded.
RunCompletedAllSent ==
  /\ cmd = "run" /\ pc = "idle" /\ path = "normal"
  /\ results # << >>
  /\ \A i \in DOMAIN results : results[i].ok

\* C37: whatever the spelling or letter case of the configured channel names,
\* when a cmd_run has completed with every configured channel pushed with
\* success, the run is complete for these settings: a cmd_run that follows
\* for the same date with the same settings returns at the entry check,
\* before any fetch or push.
C37_CompletedRunIsSkipped ==
  RunCompletedAllSent => AlreadyCompleted(today, cfg)

\* ---------------------------------------------------------------------------
\* the gates let every call through (llm.py 28-42, 84-93)
\* ---------------------------------------------------------------------------

\* The times a suspended call is waiting for: the end of the sleep inside
\* acquire and the ends of the retry waits.
WakeTimes ==
  {sleep_until : c \in {b \in Calls : gpc[b] = "sleep" /\ clock < sleep_until}}
    \cup {retry_at[c] : c \in {b \in Calls : gpc[b] = "wait" /\ clock < retry_at[b]}}

\* A call can go on without waiting for time or for an HTTP response.
CanRun ==
  ENABLED (\E c \in Calls :
             AcquireEnter(c) \/ AcquireWake(c) \/ SemaphoreEnter(c) \/ PostRetry(c))

\* The event loop sleeps only when no call is ready to run; time then passes
\* up to the next wake-up, where asyncio.sleep or tenacity's wait ends.
TickToWake ==
  /\ ~CanRun
  /\ WakeTimes # {}
  /\ clock' = CHOOSE t \in WakeTimes : \A u \in WakeTimes : t <= u
  /\ UNCHANGED << storeVars, ctlVars, sumVars, fetchVars, valVars, dbVars, timeVars, pushVars, oneVars,
                  extractVars, raceVars, crashVars, rpm, timestamps, lock, sleep_until,
                  max_concurrency, semaphore, gpc, attempt, retry_at, response, admitted,
                  started >>

NextGateLive ==
  \/ \E c \in Calls : AcquireEnter(c) \/ AcquireWake(c) \/ SemaphoreEnter(c)
  \/ \E c \in Calls : PostReturn(c) \/ PostRaise(c) \/ PostRetry(c)
  \/ TickToWake

\* The event loop runs whatever is ready, time passes, and every HTTP request
\* ends, by returning or by raising.
SpecGateLive == InitGate /\ [][NextGateLive]_vars /\ WF_vars(NextGateLive)

\* Every chat call has left the client.
AllCallsEnded == \A c \in Calls : gpc[c] \in {"returned", "raised"}

\* C38: provided every HTTP request ends, every chat call gets through the
\* rate gate and the concurrency gate and ends, for every rate N >= 1 and
\* every K >= 1; and once the calls have ended the lock of the rate gate is
\* free and every slot of the semaphore is back, whether the calls returned
\* or raised.
C38_GatesLetEveryCallEnd ==
  /\ <>AllCallsEnded
  /\ [](AllCallsEnded => lock = 0 /\ semaphore = max_concurrency)

\* All calls have ended, one of them by raising, after one of them had slept
\* in the rate gate for a whole window.
C38_Witness ==
  /\ AllCallsEnded
  /\ \E c \in Calls : gpc[c] = "raised"
  /\ Len(admitted) = MaxCalls /\ admitted[Len(admitted)] >= Window
  /\ lock = 0 /\ semaphore = max_concurrency

\* ---------------------------------------------------------------------------
\* summarize_papers called again (summarizer.py 143-199, cli.py 69-74, 118-134)
\* ---------------------------------------------------------------------------

\* summarize_papers has returned and is called again, by cmd_run on the list
\* it fetched and stored (cli.py 69-74) or by cmd_summarize on stored papers
\* (cli.py 126-131). tpc and tsum keep what each paper's last task did until
\* the new call makes its tasks.
SumAgain ==
  /\ spc = "returned"
  /\ \E ps \in FetchResults \ {<< >>} :
       /\ inPapers' = ps
       /\ papers' = papers \cup SeqToSet(ps)
  /\ spc' = "start"
  /\ out' = << >>
  /\ storeFault' = FALSE
  /\ UNCHANGED << summaries, runs, ctlVars, auxVars, tpc, tsum >>

NextSumAgain == NextSum \/ SumAgain

SpecSumAgain == InitSum /\ [][NextSumAgain]_vars

\* C39: a paper with a summary in the store, the minimal one included, keeps
\* a summary and has no task waiting for the model, in the call that saved it
\* and in every later call of summarize_papers; and a call given a paper
\* without a summary in the store, such as one whose last task failed, makes a
\* task for it.
C39_PersistedNeverAskedAgain ==
  [][ /\ \A id \in PaperIds :
           has_summary(id) => summaries'[id] # NoSummary /\ tpc'[id] \notin {"first", "raw", "fix"}
      /\ (spc = "start" /\ spc' = "gather")
           => \A id \in SeqToSet(inPapers) : ~has_summary(id) => tpc'[id] = "first" ]_vars

\* A later call is under way on two papers: the last task of one saved the
\* minimal summary and the paper has no task now; the last task of the other
\* failed with nothing saved and the paper has a task again.
C39_Witness ==
  /\ spc = "gather" /\ Len(inPapers) >= 2
  /\ \E id \in SeqToSet(inPapers) :
       tsum[id] = "minimal" /\ summaries[id] = json_dumps("minimal") /\ tpc[id] = "idle"
  /\ \E id \in SeqToSet(inPapers) :
       tsum[id] = "minimal" /\ summaries[id] = NoSummary /\ tpc[id] = "first"

\* ---------------------------------------------------------------------------
\* fetch_papers page by page inside cmd_run (fetcher.py 119-195, cli.py 61-67)
\* ---------------------------------------------------------------------------

\* fetcher.py 120: stop_after_attempt(5)
fetch_stop_after_attempt == 5

\* fetcher.py 154-155, 162: range(0, fetch_limit, page_size) with
\* fetch_limit <= 300 and page_size = 100 holds at most three pages.
MaxPages == 3

\* What an attempt of _fetch_arxiv_page can raise (fetcher.py 137-140): the
\* catalog is not reached, it answers with an error status, or its answer
\* does not parse.
PageErrors == {"ConnectError", "HTTPStatusError", "ParseError"}

\* The identifiers a page can hold after what was collected: the pages follow
\* the catalog's order, and a paper already seen can turn up again.
Batches ==
  {B \in SUBSET PaperIds : \A b \in B : \A a \in SeqToSet(all_papers) : a <= b}

\* The papers of S in the catalog's order.
InOrder(S) == CHOOSE q \in FetchResults : SeqToSet(q) = S

otherAux == << gateVars, valVars, dbVars, timeVars, pushVars, oneVars, extractVars,
               raceVars, crashVars >>

\* cli.py 62 and fetcher.py 147-161: fetch_papers is entered
FetchBegin ==
  /\ pc = "r_fetch" /\ fpc = "off"
  /\ invoked' = invoked \cup {"fetch"}
  /\ \E n \in 1..MaxPages : npages' = n
  /\ fpc' = "page" /\ page_idx' = 0 /\ fattempt' = 1
  /\ all_papers' = << >> /\ failure' = "none"
  /\ UNCHANGED << storeVars, sumVars, otherAux, pc, cmd, today, cfg, fetched, results,
                  thrown, outcome, path, dbOpen, closeCount, lateOps >>

\* fetcher.py 119-123: an attempt raised and tenacity runs the request again
FetchPageRetry ==
  /\ fpc = "page" /\ fattempt < fetch_stop_after_attempt
  /\ fattempt' = fattempt + 1
  /\ UNCHANGED << storeVars, ctlVars, sumVars, otherAux, fpc, npages, page_idx,
                  all_papers, failure >>

\* fetcher.py 119-123, 167-171: the last attempt raised; reraise=True hands the
\* exception to fetch_papers, which logs it and leaves the loop.
FetchPageGivesUp ==
  /\ fpc = "page" /\ fattempt = fetch_stop_after_attempt
  /\ \E e \in PageErrors : failure' = e
  /\ fpc' = "filter"
  /\ UNCHANGED << storeVars, ctlVars, sumVars, otherAux, npages, page_idx, fattempt,
                  all_papers >>

\* fetcher.py 168, 173-182: the page came back; an empty page, a short one
\* and the last one end the loop.
FetchPageReturns ==
  /\ fpc = "page"
  /\ \E B \in Batches, full \in BOOLEAN :
       /\ B = {} => ~full
       /\ all_papers' = InOrder(SeqToSet(all_papers) \cup B)
       /\ IF B = {} \/ ~full \/ page_idx + 1 = npages
          THEN fpc' = "filter" /\ page_idx' = page_idx /\ fattempt' = fattempt
          ELSE fpc' = "page" /\ page_idx' = page_idx + 1 /\ fattempt' = 1
  /\ UNCHANGED << storeVars, ctlVars, sumVars, otherAux, npages, failure >>

\* fetcher.py 184-195 and cli.py 62-67: the time and keyword filters keep some
\* of the collected papers, fetch_papers returns them, and cmd_run records an
\* empty run or goes on.
FetchReturn ==
  /\ fpc = "filter"
  /\ \E keep \in SUBSET PaperIds :
       LET ps == InOrder(SeqToSet(all_papers) \cap keep) IN
         /\ fetched' = ps
         /\ thrown' = thrown
         /\ IF NothingFetched(ps)
            THEN /\ runs' = upsert_run(today, "empty", << >>)
                 /\ Touch
                 /\ path' = "empty"
                 /\ pc' = "finally"
            ELSE /\ pc' = "r_upsert"
                 /\ UNCHANGED << runs, path, lateOps >>
         /\ UNCHANGED << papers, summaries >>
  /\ fpc' = "off" /\ npages' = 0 /\ page_idx' = 0 /\ fattempt' = 0
  /\ all_papers' = << >> /\ failure' = failure
  /\ UNCHANGED << sumVars, otherAux, cmd, today, cfg, results, outcome, invoked, dbOpen,
                  closeCount >>

\* cmd_run with fetch_papers followed request by request.
NextFetch ==
  \/ RunStartSame \/ RunEntryCheck
  \/ FetchBegin \/ FetchPageRetry \/ FetchPageGivesUp \/ FetchPageReturns \/ FetchReturn
  \/ RunUpsertPapers \/ RunSummarize \/ RunRender \/ RunSaveDigest \/ RunPush \/ RunRecord
  \/ RunExcept \/ Finally

SpecFetch == Init /\ [][NextFetch]_vars

\* This invocation of cmd_run went through fetch_papers and has written its
\* run record.
RunRecordedAfterFetch ==
  cmd = "run" /\ pc = "finally" /\ "fetch" \in invoked /\ HasRun(today)

\* C40: when the page loop of fetch_papers was ended by a request that could
\* not reach the catalog on any of its attempts, the run is recorded as
\* failed; and a run is recorded as empty only if no page request of its
\* fetch failed.
C40_TransportFailureIsFailed ==
  RunRecordedAfterFetch
    => /\ failure = "ConnectError" => runs[today].status = "failed"
       /\ path = "empty" => failure = "none"

====
